---- MODULE Spec2Model ----
(***************************************************************************)
(* PlanDrop native messaging host (src/native-host/plandrop_host.py).      *)
(*                                                                         *)
(* The relay reads one framed JSON request from stdin, routes it to an     *)
(* action handler, which validates the untrusted fields and runs ssh/scp   *)
(* through subprocess.run, and writes one framed JSON response.            *)
(*                                                                         *)
(* Python strings are TLA+ strings (TLC implements Len, \o and SubSeq on   *)
(* them).  Two characters a TLA+ string literal cannot hold are written    *)
(* with stand-ins that are then never used as themselves: NUL (\x00) is    *)
(* "^" and the backtick is "~".                                            *)
(* JSON values are records [t |-> <type>, v |-> <value>].                  *)
(*                                                                         *)
(* Spec lets every ssh/scp call end in any way; QueueSpec, TransferSpec    *)
(* and SessionSpec run the calls on a model of the remote host and follow  *)
(* its files from request to request, each with its own set of requests.   *)
(* HarnessSpec and FramerSpec apply the validators and the framing         *)
(* functions to inputs drawn from bounded sets.                            *)
(***************************************************************************)
EXTENDS Integers, Sequences, FiniteSets, TLC

VARIABLES
    pc,        \* position of main(): "read", "handle", "wait", "send", "fatal", "exited"
    msg,       \* the request being handled (the dict read_message returned)
    outs,      \* results of the subprocess.run calls of this request, in order
    calls,     \* the subprocess.run calls started for this request, in order
    inflight,  \* the subprocess.run call main() is blocked in, or NoCall
    resp,      \* the response of this request, once the handler has produced it
    nRead,     \* request frames read from stdin
    nWritten,  \* response frames written to stdout (and flushed)
    exitCode,  \* exit status of the process, -1 while it runs
    watchSh,   \* whether watch.sh lies beside the host script on the local disk
    frame,     \* what the last frame read held: "none", "object", "array", "garbage"
    effect,    \* what the remote commands of this request did to the files of the queue
    remote,    \* queue model: the directories and files of the remote host
    before,    \* queue model: the remote host as it was when this request was read
    prev,      \* queue model: the request answered before this one, with its answer
    tmpfiles,  \* the temporary files of the relay on the local disk
    vIn,       \* validator harness: the string under test
    vTarget,   \* validator harness: result of validate_ssh_target(vIn)
    vPath,     \* validator harness: result of validate_path(vIn)
    stdin,     \* framer harness: the bytes waiting on the relay's standard input
    stdout,    \* framer harness: the bytes written to the relay's standard output
    lastRead,  \* framer harness: what the last read_message() did
    stdinWas,  \* framer harness: the bytes that were waiting before that read_message()
    lastSent   \* framer harness: the message last given to send_message()

vars == <<pc, msg, outs, calls, inflight, resp, nRead, nWritten, exitCode, watchSh, frame,
          effect, remote, before, prev, tmpfiles, vIn, vTarget, vPath, stdin, stdout, lastRead,
          stdinWas, lastSent>>
relayVars == <<pc, msg, outs, calls, inflight, resp, nRead, nWritten, exitCode, watchSh, frame,
               effect, remote, before, prev, tmpfiles>>
validatorVars == <<vIn, vTarget, vPath>>
framerVars == <<stdin, stdout, lastRead, stdinWas, lastSent>>
queueVars == <<remote, before, prev>>
\* what the main loop leaves alone when the outcomes of its calls are free
harnessVars == <<validatorVars, framerVars, queueVars>>

----------------------------------------------------------------------------
(* Bounds of the model *)

\* longest string the validator harness builds
MaxStrLen == 2
\* request frames the relay reads in one run
MaxRequests == 2

----------------------------------------------------------------------------
(* Strings *)

NUL == "^"
BACKTICK == "~"

\* the one element of a singleton set: {F(x) : x \in {e}} evaluates e once
Only(S) == CHOOSE x \in S : TRUE

\* s[i-1:j], clipped to the string as a Python slice is
Slice(s, i, j) ==
    IF i > Len(s) \/ j < i THEN ""
    ELSE SubSeq(s, i, IF j > Len(s) THEN Len(s) ELSE j)

\* the i-th character, "" past the end
Char(s, i) == Slice(s, i, i)

CharsOf(s) == UNION {{Char(t, i) : i \in 1..Len(t)} : t \in {s}}

\* sub in s
Contains(s, sub) ==
    \E t \in {s} : \E i \in 1..(Len(t) - Len(sub) + 1) : SubSeq(t, i, i + Len(sub) - 1) = sub

\* s.startswith(p)
StartsWith(s, p) == Len(p) <= Len(s) /\ SubSeq(s, 1, Len(p)) = p

\* s.find(sub) as a 1-based index, 0 when absent
Find(s, sub) ==
    Only({IF Contains(t, sub)
          THEN CHOOSE i \in 1..(Len(t) - Len(sub) + 1) :
                  /\ SubSeq(t, i, i + Len(sub) - 1) = sub
                  /\ \A j \in 1..(i - 1) : SubSeq(t, j, j + Len(sub) - 1) # sub
          ELSE 0 : t \in {s}})

\* s.split(sep, 1)[1], for a separator that occurs in s
SplitAfter(s, sep) == Slice(s, Find(s, sep) + Len(sep), Len(s))

\* characters str.strip() removes and str.isspace() accepts
PyWhitespace == {" ", "\t", "\n", "\r", "\f"}

\* weakened variant: a strip() that removes nothing
StripNothing(s) == s

\* s.strip()
Strip(s) ==
    Only({IF keep = {} THEN ""
          ELSE SubSeq(t, CHOOSE i \in keep : \A j \in keep : i <= j,
                         CHOOSE i \in keep : \A j \in keep : j <= i) :
          <<t, keep>> \in {<<x, {i \in 1..Len(x) : Char(x, i) \notin PyWhitespace}>> :
                           x \in {s}}})

RECURSIVE ReplaceRange(_, _, _, _, _)
\* s[i-1:j].replace(c, rep) for a one-character c
ReplaceRange(s, c, rep, i, j) ==
    IF j < i THEN ""
    ELSE IF i = j THEN (IF Char(s, i) = c THEN rep ELSE Char(s, i))
    ELSE Only({ReplaceRange(s, c, rep, i, h) \o ReplaceRange(s, c, rep, h + 1, j) :
               h \in {(i + j) \div 2}})

\* s.replace(c, rep) for a one-character c
ReplaceChar(s, c, rep) == Only({ReplaceRange(t, c, rep, 1, Len(t)) : t \in {s}})

----------------------------------------------------------------------------
(* JSON values: what json.loads returns and what a request's fields hold *)

Absent == [t |-> "absent", v |-> 0]   \* the key is not in the dict
Null == [t |-> "null", v |-> 0]
Str(s) == [t |-> "str", v |-> s]
Num(n) == [t |-> "num", v |-> n]
Bool(b) == [t |-> "bool", v |-> b]
List(xs) == [t |-> "list", v |-> xs]
Obj(kvs) == [t |-> "obj", v |-> kvs]     \* kvs: sequence of [k |-> key, val |-> value]

\* Python truth value of a field: `if not x`
\* weakened variant: only a missing or null value counts as not given
IsNotNone(x) == x.t \notin {"absent", "null"}

Truthy(x) ==
    CASE x.t = "absent" -> FALSE
      [] x.t = "null" -> FALSE
      [] x.t = "str" -> x.v # ""
      [] x.t = "num" -> x.v # 0
      [] x.t = "bool" -> x.v
      [] x.t = "list" -> Len(x.v) > 0
      [] x.t = "obj" -> Len(x.v) > 0

\* dict.get(key): the last binding of key wins, None when there is none
DictGet(o, key) ==
    Only({IF hits = {} THEN Null
          ELSE kvs[CHOOSE i \in hits : \A j \in hits : j <= i].val :
          <<kvs, hits>> \in {<<x, {i \in 1..Len(x) : x[i].k = key}>> : x \in {o.v}}})

----------------------------------------------------------------------------
(* Validator *)

\* re.compile(r'[;&|`$()<>\n\r\x00]')
DANGEROUS_PATH_CHARS == {";", "&", "|", BACKTICK, "$", "(", ")", "<", ">", "\n", "\r", NUL}

\* weakened variant: the target pattern without its \s
TargetCharsWithoutWhitespace == DANGEROUS_PATH_CHARS

\* re.compile(r'[;&|`$()<>\n\r\x00\s]')
DANGEROUS_TARGET_CHARS == DANGEROUS_PATH_CHARS \cup PyWhitespace

\* pattern.search(s) for a character-class pattern
Search(class, s) == CharsOf(s) \cap class # {}

Valid(x) == [k |-> "ok", msg |-> "", val |-> x]
ValueError(m) == [k |-> "ValueError", msg |-> m, val |-> Null]
TypeError(m) == [k |-> "TypeError", msg |-> m, val |-> Null]
AttributeError(m) == [k |-> "AttributeError", msg |-> m, val |-> Null]
Unset == [k |-> "unset", msg |-> "", val |-> Null]

\* weakened variant: validate_path without the test for escaped quotes
validate_path_chars_only(path) ==
    IF ~Truthy(path) THEN ValueError("Path cannot be empty")
    ELSE IF path.t # "str" THEN TypeError("expected string or bytes-like object")
    ELSE IF Search(DANGEROUS_PATH_CHARS, path.v)
         THEN ValueError("Path contains invalid characters")
    ELSE Valid(path)

validate_path(path) ==
    IF ~Truthy(path) THEN ValueError("Path cannot be empty")
    ELSE IF path.t # "str" THEN TypeError("expected string or bytes-like object")
    ELSE IF Search(DANGEROUS_PATH_CHARS, path.v)
         THEN ValueError("Path contains invalid characters")
    ELSE IF Contains(path.v, "\\\"") \/ Contains(path.v, "\\'")
         THEN ValueError("Path contains invalid escape sequences")
    ELSE Valid(path)

validate_ssh_target(target) ==
    IF ~Truthy(target) THEN ValueError("SSH target cannot be empty")
    ELSE IF target.t # "str" THEN TypeError("expected string or bytes-like object")
    ELSE IF Search(DANGEROUS_TARGET_CHARS, target.v)
         THEN ValueError("SSH target contains invalid characters")
    ELSE Valid(target)

\* re.match(r'^[a-zA-Z0-9_-]+$', s): `$` also matches just before a final newline
IdChars ==
    {"a", "b", "c", "d", "e", "f", "g", "h", "i", "j", "k", "l", "m",
     "n", "o", "p", "q", "r", "s", "t", "u", "v", "w", "x", "y", "z",
     "A", "B", "C", "D", "E", "F", "G", "H", "I", "J", "K", "L", "M",
     "N", "O", "P", "Q", "R", "S", "T", "U", "V", "W", "X", "Y", "Z",
     "0", "1", "2", "3", "4", "5", "6", "7", "8", "9", "_", "-"}

MatchId(s) ==
    \E n \in 1..Len(s) :
        /\ \A i \in 1..n : Char(s, i) \in IdChars
        /\ \/ n = Len(s)
           \/ n = Len(s) - 1 /\ Char(s, Len(s)) = "\n"

----------------------------------------------------------------------------
(* json.loads and json.dumps *)

JsonWhitespace == {" ", "\t", "\n", "\r"}
Digits == "0123456789"
ControlChars == {"\n", "\r", "\t", "\f", NUL}

IsDigit(c) == c # "" /\ Contains(Digits, c)
DigitVal(c) == Find(Digits, c) - 1

ParseFail == [ok |-> FALSE, val |-> Null, pos |-> 0]
Parsed(x, p) == [ok |-> TRUE, val |-> x, pos |-> p]

\* the first position from i on that holds no whitespace (Len(s) + 1 when there is none)
SkipWs(s, i) ==
    LET stops == {j \in i..Len(s) : Char(s, j) \notin JsonWhitespace}
    IN  IF stops = {} THEN (IF i > Len(s) THEN i ELSE Len(s) + 1)
        ELSE CHOOSE j \in stops : \A k \in stops : j <= k

\* what a backslash escape inside a JSON string stands for ("" when it is not one)
Unescape(e) ==
    CASE e = "\"" -> "\""
      [] e = "\\" -> "\\"
      [] e = "/" -> "/"
      [] e = "n" -> "\n"
      [] e = "r" -> "\r"
      [] e = "t" -> "\t"
      [] e = "f" -> "\f"
      [] OTHER -> ""

\* the first position from i on that holds a quote, a backslash or a control character
\* (Len(s) + 1 when there is none)
NextSpecial(s, i) ==
    LET stops == {j \in i..Len(s) : Char(s, j) \in ControlChars \cup {"\"", "\\"}}
    IN  IF stops = {} THEN Len(s) + 1 ELSE CHOOSE j \in stops : \A k \in stops : j <= k

RECURSIVE ParseString(_, _, _)
\* the string whose opening quote is just before position i: plain characters are taken
\* a run at a time
ParseString(s, i, acc) ==
    Only({IF j > Len(s) THEN ParseFail
          ELSE IF Char(s, j) = "\"" THEN Parsed(Str(acc \o Slice(s, i, j - 1)), j + 1)
          ELSE IF Char(s, j) = "\\"
               THEN IF j + 1 > Len(s) \/ Unescape(Char(s, j + 1)) = "" THEN ParseFail
                    ELSE ParseString(s, j + 2,
                                     acc \o Slice(s, i, j - 1) \o Unescape(Char(s, j + 1)))
          ELSE ParseFail : j \in {NextSpecial(s, i)}})

RECURSIVE ParseDigits(_, _, _)
ParseDigits(s, i, n) ==
    Only({IF j <= Len(s) /\ IsDigit(Char(s, j))
          THEN ParseDigits(s, j + 1, 10 * m + DigitVal(Char(s, j)))
          ELSE Parsed(Num(m), j) : <<j, m>> \in {<<i, n>>}})

RECURSIVE ParseValue(_, _)
RECURSIVE ParseElements(_, _, _)
RECURSIVE ParseMembers(_, _, _)
RECURSIVE AfterElement(_, _, _)
RECURSIVE AfterMember(_, _, _)
RECURSIVE MemberValue(_, _, _, _)

\* after a value that ended before position p: "]" closes the array, "," goes on
AfterElement(s, p, acc) ==
    Only({IF Char(s, j) = "]" THEN Parsed(List(acc), j + 1)
          ELSE IF Char(s, j) = "," THEN ParseElements(s, SkipWs(s, j + 1), acc)
          ELSE ParseFail : j \in {SkipWs(s, p)}})

\* the elements of an array after "[" or ",": i is at the next value
ParseElements(s, i, acc) ==
    Only({IF ~r.ok THEN ParseFail ELSE AfterElement(s, r.pos, Append(acc, r.val)) :
          r \in {ParseValue(s, i)}})

\* after a member that ended before position p: "}" closes the object, "," goes on
AfterMember(s, p, kvs) ==
    Only({IF Char(s, j) = "}" THEN Parsed(Obj(kvs), j + 1)
          ELSE IF Char(s, j) = "," THEN ParseMembers(s, SkipWs(s, j + 1), kvs)
          ELSE ParseFail : j \in {SkipWs(s, p)}})

\* the value of the member named key, after the key that ended before position p
MemberValue(s, p, key, acc) ==
    Only({IF Char(s, c) # ":" THEN ParseFail
          ELSE Only({IF ~r.ok THEN ParseFail
                     ELSE AfterMember(s, r.pos, Append(acc, [k |-> key, val |-> r.val])) :
                     r \in {ParseValue(s, SkipWs(s, c + 1))}}) :
          c \in {SkipWs(s, p)}})

\* the members of an object after "{" or ",": i is at the next key
ParseMembers(s, i, acc) ==
    IF Char(s, i) # "\"" THEN ParseFail
    ELSE Only({IF ~k.ok THEN ParseFail ELSE MemberValue(s, k.pos, k.val.v, acc) :
               k \in {ParseString(s, i + 1, "")}})

ParseValue(s, i) ==
    LET c == Char(s, i) IN
    IF c = "\"" THEN ParseString(s, i + 1, "")
    ELSE IF c = "{"
         THEN Only({IF Char(s, j) = "}" THEN Parsed(Obj(<<>>), j + 1)
                    ELSE ParseMembers(s, j, <<>>) : j \in {SkipWs(s, i + 1)}})
    ELSE IF c = "["
         THEN Only({IF Char(s, j) = "]" THEN Parsed(List(<<>>), j + 1)
                    ELSE ParseElements(s, j, <<>>) : j \in {SkipWs(s, i + 1)}})
    ELSE IF c = "0" THEN Parsed(Num(0), i + 1)
    ELSE IF IsDigit(c) THEN ParseDigits(s, i, 0)
    ELSE IF Slice(s, i, i + 3) = "null" THEN Parsed(Null, i + 4)
    ELSE IF Slice(s, i, i + 3) = "true" THEN Parsed(Bool(TRUE), i + 4)
    ELSE IF Slice(s, i, i + 4) = "false" THEN Parsed(Bool(FALSE), i + 5)
    ELSE ParseFail

JSONDecodeError == [k |-> "JSONDecodeError", msg |-> "Expecting value", val |-> Null]

\* a parser that takes any text for a plan with an id
json_loads_anything(x) == Valid(Obj(<<[k |-> "id", val |-> Str("abc123")]>>))

\* json.loads(x)
json_loads(x) ==
    IF x.t # "str"
    THEN TypeError("the JSON object must be str, bytes or bytearray")
    ELSE Only({IF r.ok /\ SkipWs(x.v, r.pos) = Len(x.v) + 1 THEN Valid(r.val)
               ELSE JSONDecodeError : r \in {ParseValue(x.v, SkipWs(x.v, 1))}})

\* how json.dumps writes one character of a string
Escape(c) ==
    CASE c = "\"" -> "\\\""
      [] c = "\\" -> "\\\\"
      [] c = "\n" -> "\\n"
      [] c = "\r" -> "\\r"
      [] c = "\t" -> "\\t"
      [] c = "\f" -> "\\f"
      [] c = NUL -> "\\u0000"
      [] OTHER -> c

RECURSIVE EscapeAll(_)
\* the characters of s, each as json.dumps writes it (s is halved: long strings stay shallow)
EscapeAll(s) ==
    Only({IF t = "" THEN ""
          ELSE IF Len(t) = 1 THEN Escape(t)
          ELSE EscapeAll(Slice(t, 1, Len(t) \div 2))
               \o EscapeAll(Slice(t, Len(t) \div 2 + 1, Len(t))) : t \in {s}})

RECURSIVE NumStr(_)
\* str(n) for n >= 0
NumStr(n) ==
    IF n < 10 THEN Char(Digits, n + 1)
    ELSE NumStr(n \div 10) \o Char(Digits, (n % 10) + 1)

RECURSIVE json_dumps(_)
RECURSIVE DumpItems(_, _)
\* the items of a list or dict, joined by ", "
DumpItems(xs, isObj) ==
    IF Len(xs) = 0 THEN ""
    ELSE Only({IF Len(xs) = 1 THEN one ELSE one \o ", " \o DumpItems(Tail(xs), isObj) :
               one \in {IF isObj
                        THEN "\"" \o EscapeAll(Head(xs).k) \o "\": "
                             \o json_dumps(Head(xs).val)
                        ELSE json_dumps(Head(xs))}})

\* json.dumps(x) with the default separators
json_dumps(x) ==
    CASE x.t = "str" -> "\"" \o EscapeAll(x.v) \o "\""
      [] x.t = "num" -> NumStr(x.v)
      [] x.t = "bool" -> (IF x.v THEN "true" ELSE "false")
      [] x.t = "list" -> "[" \o DumpItems(x.v, FALSE) \o "]"
      [] x.t = "obj" -> "{" \o DumpItems(x.v, TRUE) \o "}"
      [] OTHER -> "null"


----------------------------------------------------------------------------
(* Remote command builder *)

SSH_TIMEOUT == 5
SCP_TIMEOUT == 30

\* str(x) of a request field
PyStr(x) ==
    CASE x.t = "str" -> x.v
      [] x.t = "num" -> NumStr(x.v)
      [] x.t = "bool" -> (IF x.v THEN "True" ELSE "False")
      [] x.t \in {"null", "absent"} -> "None"
      [] OTHER -> json_dumps(x)

\* the options both builders end with
CommonOptions ==
    <<"-o", "BatchMode=yes",
      "-o", "StrictHostKeyChecking=accept-new",
      "-o", "ConnectTimeout=" \o NumStr(SSH_TIMEOUT),
      "-o", "ControlMaster=auto",
      "-o", "ControlPath=/tmp/plandrop-%r@%h:%p",
      "-o", "ControlPersist=60">>

\* the list elements are request fields: ssh_key is put in as it is
build_ssh_args(ssh_target, ssh_key, ssh_port) ==
    (IF Truthy(ssh_key) THEN <<Str("-i"), ssh_key>> ELSE <<>>)
    \o (IF Truthy(ssh_port) THEN <<Str("-p"), Str(PyStr(ssh_port))>> ELSE <<>>)
    \o [i \in 1..Len(CommonOptions) |-> Str(CommonOptions[i])]

\* the list for scp with the port flag of ssh
scp_args_with_ssh_flag(ssh_target, ssh_key, ssh_port) ==
    build_ssh_args(ssh_target, ssh_key, ssh_port)

build_scp_args(ssh_target, ssh_key, ssh_port) ==
    (IF Truthy(ssh_key) THEN <<Str("-i"), ssh_key>> ELSE <<>>)
    \o (IF Truthy(ssh_port) THEN <<Str("-P"), Str(PyStr(ssh_port))>> ELSE <<>>)
    \o [i \in 1..Len(CommonOptions) |-> Str(CommonOptions[i])]

----------------------------------------------------------------------------
(* subprocess.run *)

\* a call: the argument vector (JSON values, all strings when the call can start)
\* and the timeout in seconds
NoCall == [argv |-> <<>>, timeout |-> 0]
\* weakened variant: subprocess.run without timeout=
CallWithoutTimeout(argv, t) == [argv |-> argv, timeout |-> 0]

\* subprocess.run(argv, ..., timeout=t)
Call(argv, t) == [argv |-> argv, timeout |-> t]

Prog(c) == c.argv[1].v
\* the last argument: the remote command of ssh, the destination of scp
LastArg(c) == c.argv[Len(c.argv)].v

\* ['ssh'] + build_ssh_args(...) + [ssh_target, command]
SshCall(data, target, command, t) ==
    Call(<<Str("ssh")>> \o build_ssh_args(target, data.ssh_key, data.ssh_port)
         \o <<Str(target), Str(command)>>, t)

\* a copy made with ssh in place of scp
CopyWithSsh(data, target, local, dest, t) ==
    SshCall(data, target, "cp " \o local \o " " \o dest, t)

\* ['scp'] + build_scp_args(...) + [local, target:dest]
ScpCall(data, target, local, dest, t) ==
    Call(<<Str("scp")>> \o build_scp_args(target, data.ssh_key, data.ssh_port)
         \o <<Str(local), Str(target \o ":" \o dest)>>, t)

\* subprocess.run and ' '.join(args) raise TypeError on an argument that is no string
ArgsAreStrings(c) == \A a \in {c.argv} : \A i \in 1..Len(a) : a[i].t = "str"

\* what one subprocess.run call can end with
Exit(rc, out, err) == [kind |-> "exit", rc |-> rc, stdout |-> out, stderr |-> err]
TimeoutExpired == [kind |-> "timeout", rc |-> 0, stdout |-> "", stderr |-> ""]
FileNotFound == [kind |-> "notfound", rc |-> 0, stdout |-> "", stderr |-> ""]

\* ssh and scp exit with 255 when they could not connect
ConnectFailed == Exit(255, "", "ssh: connect to host h port 22: Connection refused\n")

\* the results the transport is let to give: a timeout, a missing executable, a refused
\* connection, and exits of the remote command with and without output on either stream
Outcomes ==
    {TimeoutExpired, FileNotFound, ConnectFailed,
     Exit(0, "", ""), Exit(0, " \n", ""), Exit(0, "12 34\n", ""), Exit(0, "x\n", "warn\n"),
     Exit(1, "", ""), Exit(1, "", "boom\n"), Exit(1, "x\n", "")}

----------------------------------------------------------------------------
(* The remote side: how the login shell reads the command ssh hands it, and what the *)
(* steps `echo ... >> file` and `rm -f file` do to the files of the queue            *)

ShellBlanks == {" ", "\t"}
ShellOperatorChars == {"&", "|", ";", "<", ">", "(", ")", "\n"}
ShellSpecial == ShellBlanks \cup ShellOperatorChars \cup {"'", "\"", "\\"}

\* the first position from i on that holds a character of set (Len(s) + 1 when none)
NextIn(s, i, set) ==
    Only({IF stops = {} THEN Len(s) + 1 ELSE CHOOSE j \in stops : \A k \in stops : j <= k :
          stops \in {{j \in i..Len(s) : Char(s, j) \in set}}})

\* the first position from i on that holds no blank (Len(s) + 1 when none)
SkipBlanks(s, i) ==
    Only({IF stops = {} THEN Len(s) + 1 ELSE CHOOSE j \in stops : \A k \in stops : j <= k :
          stops \in {{j \in i..Len(s) : Char(s, j) \notin ShellBlanks}}})

\* the k-th smallest element of a set of numbers
Nth(S, k) == CHOOSE p \in S : Cardinality({q \in S : q < p}) = k - 1

Word(w) == [op |-> FALSE, text |-> w]
Op(o) == [op |-> TRUE, text |-> o]

ShellSyntaxError == [ok |-> FALSE, tokens |-> <<>>]

\* the tokens so far, with the word in progress closed
Flush(st) == IF st.open THEN Append(st.acc, Word(st.word)) ELSE st.acc

\* the scanner is at position i, inside the word `word` when open; bad after an
\* unterminated quote
ScanFrom(i, word, open, acc) == [i |-> i, word |-> word, open |-> open, acc |-> acc, bad |-> FALSE]
ScanFailed == [i |-> 0, word |-> "", open |-> FALSE, acc |-> <<>>, bad |-> TRUE]

RECURSIVE InDoubleQuotes(_, _, _)
\* inside "...", from position i to the closing quote: a backslash quotes only " \ $ `
InDoubleQuotes(s, i, word) ==
    Only({IF j > Len(s) THEN [ok |-> FALSE, word |-> "", pos |-> 0]
          ELSE IF Char(s, j) = "\""
               THEN [ok |-> TRUE, word |-> w \o Slice(s, i, j - 1), pos |-> j + 1]
          ELSE IF Char(s, j + 1) \in {"\"", "\\", "$", BACKTICK}
               THEN InDoubleQuotes(s, j + 2, w \o Slice(s, i, j - 1) \o Char(s, j + 1))
          ELSE InDoubleQuotes(s, j + 2, w \o Slice(s, i, j + 1)) :
          <<j, w>> \in {<<NextIn(s, i, {"\"", "\\"}), word>>}})

\* '...': everything up to the next single quote, as it is
SingleQuoted(s, st) ==
    Only({IF j > Len(s) THEN ScanFailed
          ELSE ScanFrom(j + 1, st.word \o Slice(s, st.i + 1, j - 1), TRUE, st.acc) :
          j \in {NextIn(s, st.i + 1, {"'"})}})

DoubleQuoted(s, st) ==
    Only({IF ~q.ok THEN ScanFailed ELSE ScanFrom(q.pos, q.word, TRUE, st.acc) :
          q \in {InDoubleQuotes(s, st.i + 1, st.word)}})

\* && || >> are one operator, any other operator character stands alone
Operator(s, st) ==
    Only({ScanFrom(st.i + Len(o), "", FALSE, Append(Flush(st), Op(o))) :
          o \in {IF Slice(s, st.i, st.i + 1) \in {"&&", "||", ">>"}
                 THEN Slice(s, st.i, st.i + 1) ELSE Char(s, st.i)}})

\* a run of characters that mean nothing to the shell
Unquoted(s, st) ==
    Only({ScanFrom(j, st.word \o Slice(s, st.i, j - 1), TRUE, st.acc) :
          j \in {NextIn(s, st.i, ShellSpecial)}})

\* one step of the scanner, by the character it is at
ShellStep(s, st) ==
    Only({CASE c = "'" -> SingleQuoted(s, st)
            [] c = "\"" -> DoubleQuoted(s, st)
            [] c = "\\" -> ScanFrom(st.i + 2, st.word \o Char(s, st.i + 1), TRUE, st.acc)
            [] c \in ShellBlanks -> ScanFrom(SkipBlanks(s, st.i), "", FALSE, Flush(st))
            [] c \in ShellOperatorChars -> Operator(s, st)
            [] OTHER -> Unquoted(s, st) :
          c \in {Char(s, st.i)}})

RECURSIVE ShellScan(_, _)
\* the tokens of s from the scanner's position on: words, with their quotes removed, and
\* operators
ShellScan(s, state) ==
    Only({IF st.bad THEN ShellSyntaxError
          ELSE IF st.i > Len(s) THEN [ok |-> TRUE, tokens |-> Flush(st)]
          ELSE ShellScan(s, ShellStep(s, st)) :
          st \in {state}})

\* the tokens of a command line
ShellTokens(cmd) ==
    Only({ShellScan(t, ScanFrom(1, "", FALSE, <<>>)) : t \in {cmd}})

\* the simple commands of an and-list: the tokens between one && and the next
AndList(tokens) ==
    Only({[k \in 1..(Cardinality(ands) + 1) |->
              SubSeq(tokens,
                     (IF k = 1 THEN 0 ELSE Nth(ands, k - 1)) + 1,
                     (IF k > Cardinality(ands) THEN Len(tokens) + 1 ELSE Nth(ands, k)) - 1)] :
          ands \in {{i \in 1..Len(tokens) : tokens[i] = Op("&&")}}})

RECURSIVE JoinWords(_)
\* the words joined by single spaces, as echo prints its arguments
JoinWords(ws) ==
    IF Len(ws) = 0 THEN ""
    ELSE IF Len(ws) = 1 THEN ws[1].text
    ELSE ws[1].text \o " " \o JoinWords(Tail(ws))

OtherStep == [do |-> "other", file |-> "", text |-> ""]

\* what one simple command does: `echo words >> file` appends a line, `rm -f file`
\* removes a file; any other command is not followed
SimpleCommand(ts) ==
    IF /\ Len(ts) >= 3
       /\ ts[1] = Word("echo")
       /\ ts[Len(ts) - 1] = Op(">>")
       /\ \A i \in (2..(Len(ts) - 2)) \cup {Len(ts)} : ~ts[i].op
    THEN [do |-> "append", file |-> ts[Len(ts)].text,
          text |-> JoinWords(SubSeq(ts, 2, Len(ts) - 2))]
    ELSE IF Len(ts) = 3 /\ ts[1] = Word("rm") /\ ts[2] = Word("-f") /\ ~ts[3].op
         THEN [do |-> "delete", file |-> ts[3].text, text |-> ""]
    ELSE OtherStep

\* the steps of a command line, in the order the shell runs them (none when the line
\* is not an and-list of appends and removals)
RemoteSteps(cmd) ==
    Only({IF ~r.ok THEN <<>>
          ELSE Only({IF \E k \in DOMAIN steps : steps[k] = OtherStep THEN <<>> ELSE steps :
                     steps \in {[k \in DOMAIN l |-> SimpleCommand(l[k])] :
                                l \in {AndList(r.tokens)}}}) :
          r \in {ShellTokens(cmd)}})

RECURSIVE EchoEscapes(_, _)
\* what an echo that interprets backslash sequences (dash, zsh) prints for s from i on
EchoEscapes(s, i) ==
    Only({IF j > Len(s) THEN Slice(s, i, Len(s))
          ELSE Slice(s, i, j - 1)
               \o (CASE c = "n" -> "\n"
                     [] c = "t" -> "\t"
                     [] c = "r" -> "\r"
                     [] c = "f" -> "\f"
                     [] c = "\\" -> "\\"
                     [] OTHER -> "\\" \o c)
               \o EchoEscapes(s, j + 2) :
          <<j, c>> \in {<<q, Char(s, q + 1)>> : q \in {NextIn(s, i, {"\\"})}}})

\* the line echo writes: whether backslash sequences are interpreted depends on the
\* remote shell
EchoPrints(text, escapes) == (IF escapes THEN EchoEscapes(text, 1) ELSE text) \o "\n"

\* the files of the queue are as they were
NoEffect == [appended |-> <<>>, deleted |-> {}]

\* what the first k steps do: the lines appended, in order, and the files removed
AfterSteps(steps, k, escapes) ==
    Only({[appended |-> [n \in 1..Cardinality(appends) |->
                            [file |-> steps[Nth(appends, n)].file,
                             text |-> EchoPrints(steps[Nth(appends, n)].text, escapes)]],
           deleted |-> {steps[i].file : i \in {i \in 1..k : steps[i].do = "delete"}}] :
          appends \in {{i \in 1..k : steps[i].do = "append"}}})

\* how many steps of the command can have run, given how the call ended: none when ssh
\* never connected, all when the status is 0, all before the failing one when it is
\* not, and any number when the relay stopped waiting
StepsRun(steps, r) ==
    IF r.kind = "notfound" \/ (r.kind = "exit" /\ r.rc = 255) THEN {0}
    ELSE IF r.kind = "timeout" THEN 0..Len(steps)
    ELSE IF r.rc = 0 THEN {Len(steps)}
    ELSE IF Len(steps) = 0 THEN {0}
    ELSE 0..(Len(steps) - 1)

\* what a call that ended with r can have done on the remote side
RemoteEffects(call, r) ==
    IF Prog(call) # "ssh" THEN {NoEffect}
    ELSE UNION {{AfterSteps(steps, k, escapes) : k \in StepsRun(steps, r), escapes \in BOOLEAN} :
                steps \in {RemoteSteps(LastArg(call))}}

----------------------------------------------------------------------------
(* What a handler has done, given the results of its calls so far *)

NoResp == Null
\* temps counts the tempfile.mkstemp calls the handler has made on its way, made holds
\* the files they created and unlinked those the handler has removed since
Return(r) ==
    [kind |-> "return", resp |-> r, call |-> NoCall, exc |-> Unset, temps |-> 0,
     made |-> {}, unlinked |-> {}]
Need(c) ==
    [kind |-> "call", resp |-> NoResp, call |-> c, exc |-> Unset, temps |-> 0,
     made |-> {}, unlinked |-> {}]
Raise(e) ==
    [kind |-> "raise", resp |-> NoResp, call |-> NoCall, exc |-> e, temps |-> 0,
     made |-> {}, unlinked |-> {}]

\* temp_fd, temp_path = tempfile.mkstemp(...), then the rest of the handler
Mkstemp(temp_path, rest) == [rest EXCEPT !.temps = 1, !.made = @ \cup {temp_path}]

\* weakened variant: a handler without the finally clause
LeaveTempFile(temp_path, rest) == rest

\* try: rest  finally: if temp_path and os.path.exists(temp_path): os.unlink(temp_path)
\* (the clause runs when the try block is left, not while a call of it is awaited)
Unlink(temp_path, rest) ==
    IF rest.kind = "call" THEN rest
    ELSE [rest EXCEPT !.unlinked = @ \cup (rest.made \cap {temp_path})]

Field(k, x) == [k |-> k, val |-> x]
Response(status, fields) == Obj(<<Field("status", Str(status))>> \o fields)
Error(m) == Response("error", <<Field("message", Str(m))>>)

Status(r) == DictGet(r, "status").v
Message(r) == IF DictGet(r, "message").t = "str" THEN DictGet(r, "message").v ELSE ""

\* str(e) of the exceptions `except Exception` catches around the calls
ArgTypeErrorText == "expected str instance"
NotFoundText == "[Errno 2] No such file or directory"

\* the common head of the handlers' try blocks: a call whose arguments are not
\* all strings raises inside the try, and `except Exception` answers str(e)
BadArgs(c) == Return(Error(ArgTypeErrorText))

\* weakened variant: a handler that validates the target and forgets the path
ValidateTargetOnly(data) == validate_ssh_target(data.ssh_target)

\* try: validate_ssh_target(...); validate_path(...)  except ValueError
ValidateTargetAndPath(data) ==
    LET t == validate_ssh_target(data.ssh_target) IN
    IF t.k # "ok" THEN t ELSE validate_path(data.remote_path)

\* a ValueError is answered, any other exception leaves the handler
OnInvalid(v) == IF v.k = "ValueError" THEN Return(Error(v.msg)) ELSE Raise(v)


----------------------------------------------------------------------------
(* Helpers of the handlers *)

\* the fallback text whatever the first text is
OrDefault(a, b) == b

\* a or b, for strings
Or(a, b) == IF a # "" THEN a ELSE b

RECURSIVE SplitFrom(_, _, _)
\* s.split(): the whitespace-separated words of s
SplitFrom(s, i, word) ==
    Only({IF i > Len(s) THEN (IF w = "" THEN <<>> ELSE <<w>>)
          ELSE IF Char(s, i) \in PyWhitespace
               THEN (IF w = "" THEN <<>> ELSE <<w>>) \o SplitFrom(s, i + 1, "")
          ELSE SplitFrom(s, i + 1, w \o Char(s, i)) : w \in {word}})

Split(s) == Only({SplitFrom(t, 1, "") : t \in {s}})

\* whether int(w) returns (decimal digits only in this model's outputs)
IsInt(w) == \E t \in {w} : t # "" /\ \A i \in 1..Len(t) : IsDigit(Char(t, i))
PyInt(w) == Only({ParseDigits(t, 1, 0).val.v : t \in {w}})

\* datetime.fromtimestamp(t).strftime("%Y-%m-%d %H:%M:%S"): the calendar date depends on
\* the local time zone and is kept symbolic
FormatTime(t) == "strftime(" \o NumStr(t) \o ")"

\* os.path.dirname(p)
Dirname(p) ==
    LET \* the path up to its last slash
        Head_(q) ==
            Only({Slice(q, 1, IF slashes = {} THEN 0
                              ELSE CHOOSE k \in slashes : \A j \in slashes : j <= k) :
                  slashes \in {{i \in 1..Len(q) : Char(q, i) = "/"}}})
    IN  Only({IF rest = {} THEN head
              ELSE Slice(head, 1, CHOOSE k \in rest : \A j \in rest : j <= k) :
              <<head, rest>> \in {<<h, {k \in 1..Len(h) : Char(h, k) # "/"}>> :
                                  h \in {Head_(p)}}})

\* tempfile.mkstemp(suffix, prefix): the name of the local temporary file
TempPath(prefix, suffix) == "/tmp/" \o prefix \o "XXXXXXXX" \o suffix

\* str(Path(__file__).parent / 'watch.sh')
WatchScript == "/opt/plandrop/native-host/watch.sh"

----------------------------------------------------------------------------
(* V1 actions.  Each handler is given the request and the results of the calls it *)
(* has made so far: it answers with the next call to make, its response, or the   *)
(* exception that leaves it.                                                      *)

action_test_conn(data, o) ==
    IF ~Truthy(data.ssh_target) THEN Return(Error("Missing ssh_target"))
    ELSE LET v == validate_ssh_target(data.ssh_target) IN
    IF v.k # "ok" THEN OnInvalid(v)
    ELSE LET ssh_target == data.ssh_target.v
             c1 == SshCall(data, ssh_target, "echo ok", SSH_TIMEOUT + 5)
             c2 == SshCall(data, ssh_target, "hostname", SSH_TIMEOUT + 5)
         IN
    IF ~ArgsAreStrings(c1) THEN BadArgs(c1)
    ELSE IF Len(o) < 1 THEN Need(c1)
    ELSE IF o[1].kind = "timeout" THEN Return(Error("Connection timed out"))
    ELSE IF o[1].kind = "notfound" THEN Return(Error("SSH command not found on system"))
    ELSE IF o[1].rc = 0
         THEN IF Len(o) < 2 THEN Need(c2)
              ELSE IF o[2].kind = "timeout" THEN Return(Error("Connection timed out"))
              ELSE IF o[2].kind = "notfound"
                   THEN Return(Error("SSH command not found on system"))
              ELSE LET hostname == IF o[2].rc = 0 THEN Strip(o[2].stdout) ELSE ssh_target
                   IN  Return(Response("success",
                           <<Field("message", Str("Connected to " \o ssh_target
                                                  \o " (" \o hostname \o ")"))>>))
    ELSE Return(Error(Or(Strip(o[1].stderr), "Connection failed")))

action_check_file(data, o) ==
    IF ~Truthy(data.ssh_target) \/ ~Truthy(data.remote_path)
    THEN Return(Error("Missing ssh_target or remote_path"))
    ELSE LET v == ValidateTargetAndPath(data) IN
    IF v.k # "ok" THEN OnInvalid(v)
    ELSE LET ssh_target == data.ssh_target.v
             remote_path == data.remote_path.v
             stat_cmd == "stat -c \"%s %Y\" \"" \o remote_path \o "\" 2>/dev/null || "
                         \o "stat -f \"%z %m\" \"" \o remote_path \o "\" 2>/dev/null"
             c1 == SshCall(data, ssh_target, stat_cmd, SSH_TIMEOUT + 5)
         IN
    IF ~ArgsAreStrings(c1) THEN BadArgs(c1)
    ELSE IF Len(o) < 1 THEN Need(c1)
    ELSE IF o[1].kind = "timeout" THEN Return(Error("Connection timed out"))
    ELSE IF o[1].kind = "notfound" THEN Return(Error(NotFoundText))
    ELSE Only({
         IF o[1].rc = 0 /\ Strip(o[1].stdout) # "" /\ Len(parts) >= 2
         THEN IF ~IsInt(parts[1]) \/ ~IsInt(parts[2])
              THEN Return(Error("invalid literal for int() with base 10"))
              ELSE Return(Response("success",
                       <<Field("exists", Bool(TRUE)),
                         Field("size", Num(PyInt(parts[1]))),
                         Field("modified", Str(FormatTime(PyInt(parts[2]))))>>))
         ELSE Return(Response("success", <<Field("exists", Bool(FALSE))>>)) :
         parts \in {Split(Strip(o[1].stdout))}})

\* weakened variant: a send_file that leaves the file alone unless overwrite is set
send_file_unless_exists(data, o) ==
    IF Truthy(data.overwrite) THEN Return(Response("success", <<>>))
    ELSE Return(Error("File exists"))

\* action_send_file(data), the results of its calls so far being o
action_send_file(data, o) ==
    IF ~Truthy(data.ssh_target) \/ ~Truthy(data.remote_path)
       \/ data.content.t \in {"absent", "null"}
    THEN Return(Error("Missing ssh_target, remote_path, or content"))
    ELSE LET v == ValidateTargetAndPath(data) IN
    IF v.k # "ok" THEN OnInvalid(v)
    ELSE LET ssh_target == data.ssh_target.v
             remote_path == data.remote_path.v
             temp_path == TempPath("plandrop_", ".md")
             remote_dir == Dirname(remote_path)
             mkdir == SshCall(data, ssh_target, "mkdir -p \"" \o remote_dir \o "\"",
                              SSH_TIMEOUT + 5)
             scp == ScpCall(data, ssh_target, temp_path, remote_path, SCP_TIMEOUT)
             n == IF remote_dir # "" THEN 1 ELSE 0     \* calls before the copy
         IN
    Unlink(temp_path, Mkstemp(temp_path,
    IF data.content.t # "str" THEN Return(Error("write() argument must be str"))
    ELSE IF ~ArgsAreStrings(scp) THEN BadArgs(scp)
    ELSE IF n = 1 /\ Len(o) < 1 THEN Need(mkdir)
    ELSE IF n = 1 /\ o[1].kind = "timeout" THEN Return(Error("Transfer timed out"))
    ELSE IF n = 1 /\ o[1].kind = "notfound"
         THEN Return(Error("SCP command not found on system"))
    ELSE IF n = 1 /\ o[1].rc # 0
         THEN Return(Error("Cannot create directory: "
                           \o Or(Strip(o[1].stderr), "Failed to create directory")))
    ELSE IF Len(o) < n + 1 THEN Need(scp)
    ELSE IF o[n + 1].kind = "timeout" THEN Return(Error("Transfer timed out"))
    ELSE IF o[n + 1].kind = "notfound"
         THEN Return(Error("SCP command not found on system"))
    ELSE IF o[n + 1].rc = 0
         THEN Return(Response("success",
                  <<Field("message", Str("Sent to " \o ssh_target \o ":" \o remote_path))>>))
    ELSE Return(Error(Or(Strip(o[n + 1].stderr), "SCP failed")))))

----------------------------------------------------------------------------
(* V2 actions: the queue under <remote_path>/.plandrop *)

action_init_queue(data, o, watch_exists) ==
    IF ~Truthy(data.ssh_target) \/ ~Truthy(data.remote_path)
    THEN Return(Error("Missing ssh_target or remote_path"))
    ELSE LET v == ValidateTargetAndPath(data) IN
    IF v.k # "ok" THEN OnInvalid(v)
    ELSE LET ssh_target == data.ssh_target.v
             plandrop_dir == data.remote_path.v \o "/.plandrop"
             mkdir_cmd == "mkdir -p " \o plandrop_dir \o "/plans " \o plandrop_dir
                          \o "/responses " \o plandrop_dir \o "/completed"
             mkdir == SshCall(data, ssh_target, mkdir_cmd, SSH_TIMEOUT + 5)
             scp == ScpCall(data, ssh_target, WatchScript, plandrop_dir \o "/watch.sh",
                            SCP_TIMEOUT)
             chmod == SshCall(data, ssh_target,
                              "chmod +x \"" \o plandrop_dir \o "/watch.sh\"", SSH_TIMEOUT + 5)
             Failed(r) == r.kind # "exit"
             Caught(r) == IF r.kind = "timeout" THEN Return(Error("Connection timed out"))
                          ELSE Return(Error(NotFoundText))
         IN
    IF ~ArgsAreStrings(mkdir) THEN BadArgs(mkdir)
    ELSE IF Len(o) < 1 THEN Need(mkdir)
    ELSE IF Failed(o[1]) THEN Caught(o[1])
    ELSE IF o[1].rc # 0
         THEN Return(Error(Or(Strip(o[1].stderr), "Failed to create directories")))
    ELSE IF ~watch_exists
         THEN Return(Error("watch.sh not found in native-host directory"))
    ELSE IF Len(o) < 2 THEN Need(scp)
    ELSE IF Failed(o[2]) THEN Caught(o[2])
    ELSE IF o[2].rc # 0 THEN Return(Error(Or(Strip(o[2].stderr), "Failed to copy watch.sh")))
    ELSE IF Len(o) < 3 THEN Need(chmod)
    ELSE IF Failed(o[3]) THEN Caught(o[3])
    ELSE IF o[3].rc # 0
         THEN Return(Error(Or(Strip(o[3].stderr), "Failed to make watch.sh executable")))
    ELSE Return(Response("success",
             <<Field("message", Str("Queue initialized at " \o plandrop_dir))>>))


\* send_plan once json.loads(plan_data) has returned or raised `plan`
SendParsedPlan(data, o, plan) ==
    IF plan.k = "JSONDecodeError" THEN Return(Error("Invalid plan JSON: " \o plan.msg))
    ELSE IF plan.k # "ok" THEN Raise(plan)
    ELSE IF plan.val.t # "obj" THEN Raise(AttributeError("object has no attribute 'get'"))
    ELSE LET plan_id == DictGet(plan.val, "id") IN
    IF ~Truthy(plan_id) THEN Return(Error("Plan data missing 'id' field"))
    ELSE IF plan_id.t # "str" THEN Raise(TypeError("expected string or bytes-like object"))
    ELSE IF ~MatchId(plan_id.v) THEN Return(Error("Invalid plan_id format"))
    ELSE LET ssh_target == data.ssh_target.v
             temp_path == TempPath("plandrop_plan_", ".json")
             dest == data.remote_path.v \o "/.plandrop/plans/" \o plan_id.v \o ".json"
             scp == ScpCall(data, ssh_target, temp_path, dest, SCP_TIMEOUT)
         IN
    Unlink(temp_path, Mkstemp(temp_path,
    IF ~ArgsAreStrings(scp) THEN BadArgs(scp)
    ELSE IF Len(o) < 1 THEN Need(scp)
    ELSE IF o[1].kind = "timeout" THEN Return(Error("Transfer timed out"))
    ELSE IF o[1].kind = "notfound" THEN Return(Error(NotFoundText))
    ELSE IF o[1].rc = 0 THEN Return(Response("success", <<Field("id", plan_id)>>))
    ELSE Return(Error(Or(Strip(o[1].stderr), "SCP failed")))))

action_send_plan(data, o) ==
    IF ~Truthy(data.ssh_target) \/ ~Truthy(data.remote_path) \/ ~Truthy(data.plan_data)
    THEN Return(Error("Missing ssh_target, remote_path, or plan_data"))
    ELSE LET v == ValidateTargetAndPath(data) IN
    IF v.k # "ok" THEN OnInvalid(v)
    ELSE Only({SendParsedPlan(data, o, plan) : plan \in {json_loads(data.plan_data)}})

action_poll_responses(data, o) ==
    IF ~Truthy(data.ssh_target) \/ ~Truthy(data.remote_path) \/ ~Truthy(data.plan_id)
    THEN Return(Error("Missing ssh_target, remote_path, or plan_id"))
    ELSE LET v == ValidateTargetAndPath(data) IN
    IF v.k # "ok" THEN OnInvalid(v)
    ELSE IF data.plan_id.t # "str"
         THEN Raise(TypeError("expected string or bytes-like object"))
    ELSE IF ~MatchId(data.plan_id.v) THEN OnInvalid(ValueError("Invalid plan_id format"))
    ELSE LET ssh_target == data.ssh_target.v
             response_file == data.remote_path.v \o "/.plandrop/responses/"
                              \o data.plan_id.v \o ".jsonl"
             cat == SshCall(data, ssh_target, "cat \"" \o response_file \o "\" 2>/dev/null",
                            SSH_TIMEOUT + 5)
         IN
    IF ~ArgsAreStrings(cat) THEN BadArgs(cat)
    ELSE IF Len(o) < 1 THEN Need(cat)
    ELSE IF o[1].kind = "timeout" THEN Return(Error("Connection timed out"))
    ELSE IF o[1].kind = "notfound" THEN Return(Error(NotFoundText))
    ELSE IF Strip(o[1].stdout) # ""
         THEN Return(Response("ok", <<Field("content", Str(o[1].stdout))>>))
    ELSE Return(Response("empty", <<>>))

\* read_heartbeat and read_session: cat one flat file of the queue
ReadFlatFile(data, o, file, key, absent) ==
    IF ~Truthy(data.ssh_target) \/ ~Truthy(data.remote_path)
    THEN Return(Error("Missing ssh_target or remote_path"))
    ELSE LET v == ValidateTargetAndPath(data) IN
    IF v.k # "ok" THEN OnInvalid(v)
    ELSE LET path == data.remote_path.v \o "/.plandrop/" \o file
             cat == SshCall(data, data.ssh_target.v, "cat \"" \o path \o "\" 2>/dev/null",
                            SSH_TIMEOUT + 5)
         IN
    IF ~ArgsAreStrings(cat) THEN BadArgs(cat)
    ELSE IF Len(o) < 1 THEN Need(cat)
    ELSE IF o[1].kind = "timeout" THEN Return(Error("Connection timed out"))
    ELSE IF o[1].kind = "notfound" THEN Return(Error(NotFoundText))
    ELSE IF Strip(o[1].stdout) # ""
         THEN Return(Response("ok", <<Field(key, Str(Strip(o[1].stdout)))>>))
    ELSE Return(Response(absent, <<>>))

action_read_heartbeat(data, o) == ReadFlatFile(data, o, "heartbeat", "timestamp", "not_running")

\* read_session with the negative answer of read_heartbeat
read_session_not_running(data, o) ==
    ReadFlatFile(data, o, "session_id", "session_id", "not_running")

action_read_session(data, o) == ReadFlatFile(data, o, "session_id", "session_id", "empty")

\* write_settings once json.loads(settings_json) has returned or raised `settings`
WriteParsedSettings(data, o, settings) ==
    IF settings.k = "JSONDecodeError"
    THEN Return(Error("Invalid settings JSON: " \o settings.msg))
    ELSE IF settings.k # "ok" THEN Raise(settings)
    ELSE LET ssh_target == data.ssh_target.v
             claude_dir == data.remote_path.v \o "/.claude"
             temp_path == TempPath("plandrop_settings_", ".json")
             mkdir == SshCall(data, ssh_target, "mkdir -p \"" \o claude_dir \o "\"",
                              SSH_TIMEOUT + 5)
             scp == ScpCall(data, ssh_target, temp_path, claude_dir \o "/settings.json",
                            SCP_TIMEOUT)
             Caught(r) == IF r.kind = "timeout" THEN Return(Error("Connection timed out"))
                          ELSE Return(Error(NotFoundText))
         IN
    Unlink(temp_path,
    IF ~ArgsAreStrings(mkdir) THEN BadArgs(mkdir)
    ELSE IF Len(o) < 1 THEN Need(mkdir)
    ELSE IF o[1].kind # "exit" THEN Caught(o[1])
    ELSE IF o[1].rc # 0
         THEN Return(Error(Or(Strip(o[1].stderr), "Failed to create .claude directory")))
    ELSE Mkstemp(temp_path,
         IF Len(o) < 2 THEN Need(scp)
         ELSE IF o[2].kind # "exit" THEN Caught(o[2])
         ELSE IF o[2].rc = 0
              THEN Return(Response("success", <<Field("message", Str("Settings written"))>>))
         ELSE Return(Error(Or(Strip(o[2].stderr), "SCP failed")))))

action_write_settings(data, o) ==
    IF ~Truthy(data.ssh_target) \/ ~Truthy(data.remote_path) \/ ~Truthy(data.settings_json)
    THEN Return(Error("Missing ssh_target, remote_path, or settings_json"))
    ELSE LET v == ValidateTargetAndPath(data) IN
    IF v.k # "ok" THEN OnInvalid(v)
    ELSE Only({WriteParsedSettings(data, o, settings) :
               settings \in {json_loads(data.settings_json)}})

action_reset_session(data, o) ==
    IF ~Truthy(data.ssh_target) \/ ~Truthy(data.remote_path)
    THEN Return(Error("Missing ssh_target or remote_path"))
    ELSE LET v == ValidateTargetAndPath(data) IN
    IF v.k # "ok" THEN OnInvalid(v)
    ELSE LET plandrop_dir == data.remote_path.v \o "/.plandrop"
             session_file == plandrop_dir \o "/session_id"
             history_file == plandrop_dir \o "/session_history.jsonl"
             ended == IF Truthy(data.timestamp) THEN data.timestamp ELSE Str("")
             entry == json_dumps(Obj(<<Field("session_id", data.session_id),
                                       Field("ended", ended)>>))
             entry_escaped == ReplaceChar(entry, "'", "'\\''")
             archive_cmd == IF Truthy(data.session_id)
                            THEN "echo '" \o entry_escaped \o "' >> \"" \o history_file
                                 \o "\" && "
                            ELSE ""
             delete_cmd == "rm -f \"" \o session_file \o "\""
             full == SshCall(data, data.ssh_target.v, archive_cmd \o delete_cmd,
                             SSH_TIMEOUT + 5)
         IN
    IF ~ArgsAreStrings(full) THEN BadArgs(full)
    ELSE IF Len(o) < 1 THEN Need(full)
    ELSE IF o[1].kind = "timeout" THEN Return(Error("Connection timed out"))
    ELSE IF o[1].kind = "notfound" THEN Return(Error(NotFoundText))
    ELSE IF o[1].rc = 0
         THEN Return(Response("success", <<Field("message", Str("Session reset"))>>))
    ELSE Return(Error(Or(Strip(o[1].stderr), "Failed to reset session")))

\* the command the allow-list looks at: command.strip(), less a leading `cd ... &&`
CmdToCheck(command) ==
    LET stripped == Strip(command) IN
    IF StartsWith(stripped, "cd ") /\ Contains(stripped, "&&")
    THEN Strip(SplitAfter(stripped, "&&"))
    ELSE stripped

\* weakened variant: run_command without its allow-list
AllowAnything(cmd_to_check) == TRUE

\* the allow-list of run_command
Allowed(cmd_to_check) ==
    \/ StartsWith(cmd_to_check, "plandrop-history")
    \/ StartsWith(cmd_to_check, "python3 ") /\ Contains(cmd_to_check, "history.py")

action_run_command(data, o) ==
    LET command == IF data.command.t = "absent" THEN Str("") ELSE data.command IN
    IF ~Truthy(data.ssh_target) \/ ~Truthy(data.remote_path)
    THEN Return(Error("Missing ssh_target or remote_path"))
    ELSE LET v == ValidateTargetAndPath(data) IN
    IF v.k # "ok" THEN OnInvalid(v)
    ELSE IF command.t # "str" THEN Raise(AttributeError("object has no attribute 'strip'"))
    ELSE IF ~Allowed(CmdToCheck(command.v))
         THEN Return(Error("Only plandrop-history commands allowed"))
    ELSE LET run == SshCall(data, data.ssh_target.v, command.v, 60) IN
    IF ~ArgsAreStrings(run) THEN BadArgs(run)
    ELSE IF Len(o) < 1 THEN Need(run)
    ELSE IF o[1].kind = "timeout" THEN Return(Error("Command timed out"))
    ELSE IF o[1].kind = "notfound" THEN Return(Error(NotFoundText))
    ELSE IF o[1].rc = 0
         THEN Return(Response("ok", <<Field("output", Str(o[1].stdout)),
                                      Field("error", Str(o[1].stderr))>>))
    ELSE Return(Response("error",
             <<Field("output", Str(o[1].stdout)),
               Field("error", Str(Or(o[1].stderr, "Exit code: " \o NumStr(o[1].rc))))>>))

\* characters shlex.quote leaves unquoted: [a-zA-Z0-9_@%+=:,./-]
ShellSafeChars == IdChars \cup {"@", "%", "+", "=", ":", ",", ".", "/"}

\* shlex.quote(s)
ShlexQuote(s) ==
    IF s = "" THEN "''"
    ELSE IF CharsOf(s) \subseteq ShellSafeChars THEN s
    ELSE "'" \o ReplaceChar(s, "'", "'\"'\"'") \o "'"

action_interrupt(data, o) ==
    IF ~Truthy(data.ssh_target) \/ ~Truthy(data.remote_path)
    THEN Return(Error("Missing ssh_target or remote_path"))
    ELSE LET v == ValidateTargetAndPath(data) IN
    IF v.k # "ok" THEN OnInvalid(v)
    ELSE LET interrupt_path == data.remote_path.v \o "/.plandrop/interrupt"
             touch == SshCall(data, data.ssh_target.v, "touch " \o ShlexQuote(interrupt_path),
                              10)
         IN
    IF ~ArgsAreStrings(touch) THEN BadArgs(touch)
    ELSE IF Len(o) < 1 THEN Need(touch)
    ELSE IF o[1].kind = "timeout" THEN Return(Error("SSH connection timed out"))
    ELSE IF o[1].kind = "notfound" THEN Return(Error(NotFoundText))
    ELSE IF o[1].rc = 0 THEN Return(Response("interrupt_sent", <<>>))
    ELSE Return(Error(Or(o[1].stderr, "Exit code: " \o NumStr(o[1].rc))))

----------------------------------------------------------------------------
(* Action dispatcher *)

Is(action, name) == action.t = "str" /\ action.v = name

\* weakened variant: a dispatcher that knows two actions and takes the rest for test_conn
handle_message_two_routes(message, o, watch_exists) ==
    IF Is(message.action, "interrupt") THEN action_interrupt(message, o)
    ELSE action_test_conn(message, o)

handle_message(message, o, watch_exists) ==
    LET action == IF message.action.t = "absent" THEN Null ELSE message.action IN
    IF Is(action, "test_conn") THEN action_test_conn(message, o)
    ELSE IF Is(action, "check_file") THEN action_check_file(message, o)
    ELSE IF Is(action, "send_file") THEN action_send_file(message, o)
    ELSE IF Is(action, "init_queue") THEN action_init_queue(message, o, watch_exists)
    ELSE IF Is(action, "send_plan") THEN action_send_plan(message, o)
    ELSE IF Is(action, "poll_responses") THEN action_poll_responses(message, o)
    ELSE IF Is(action, "read_heartbeat") THEN action_read_heartbeat(message, o)
    ELSE IF Is(action, "write_settings") THEN action_write_settings(message, o)
    ELSE IF Is(action, "read_session") THEN action_read_session(message, o)
    ELSE IF Is(action, "reset_session") THEN action_reset_session(message, o)
    ELSE IF Is(action, "run_command") THEN action_run_command(message, o)
    ELSE IF Is(action, "interrupt") THEN action_interrupt(message, o)
    ELSE Return(Error("Unknown action: " \o PyStr(action)))


----------------------------------------------------------------------------
(* Framer: [4 bytes little-endian length][length bytes of UTF-8 JSON].  A byte is a *)
(* number in 0..255, a byte string a sequence of them.                              *)

\* the characters with codes 32..126, in order; the three codes whose character a
\* literal cannot hold or a stand-in has taken (94, 96, 126) are marked with control
\* characters, which Ord and Chr treat before they look here
Printable ==
    " !\"#$%&'()*+,-./0123456789:;<=>?@ABCDEFGHIJKLMNOPQRSTUVWXYZ[\\]\t_\nabcdefghijklmnopqrstuvwxyz{|}\r"

\* ord(c) of a character of the model
Ord(c) ==
    CASE c = NUL -> 0
      [] c = "\t" -> 9
      [] c = "\n" -> 10
      [] c = "\f" -> 12
      [] c = "\r" -> 13
      [] c = BACKTICK -> 96
      [] OTHER -> 31 + Find(Printable, c)

\* chr(n) for the code of a character of the model; the control characters json.loads
\* treats alike (it accepts none of them anywhere) are all written as NUL
Chr(n) ==
    CASE n = 9 -> "\t"
      [] n = 10 -> "\n"
      [] n = 12 -> "\f"
      [] n = 13 -> "\r"
      [] n < 32 -> NUL
      [] n = 96 -> BACKTICK
      [] OTHER -> Char(Printable, n - 31)

\* s.encode('utf-8') of an ASCII string: one byte a character
encode_utf8(s) == [i \in 1..Len(s) |-> Ord(Char(s, i))]

RECURSIVE DecodeAscii(_, _, _)
\* the characters of bytes i..j of b
DecodeAscii(b, i, j) ==
    IF i > j THEN ""
    ELSE IF i = j THEN Chr(b[i])
    ELSE DecodeAscii(b, i, (i + j) \div 2) \o DecodeAscii(b, (i + j) \div 2 + 1, j)

\* bytes that occur in no UTF-8 text
NeverInUtf8 == 248..255

UnicodeDecodeError ==
    [k |-> "UnicodeDecodeError", msg |-> "'utf-8' codec can't decode byte", val |-> Null]

\* b.decode('utf-8') for ASCII text and for text with a byte no UTF-8 text holds
decode_utf8(b) ==
    IF \E i \in 1..Len(b) : b[i] \in NeverInUtf8 THEN UnicodeDecodeError
    ELSE Valid(Str(DecodeAscii(b, 1, Len(b))))

\* struct.pack('<I', n)
struct_pack_I(n) ==
    <<n % 256, (n \div 256) % 256, (n \div 65536) % 256, (n \div 16777216) % 256>>

\* weakened variant: the length read most significant byte first
struct_unpack_big_endian(b) == 16777216 * b[1] + 65536 * b[2] + 256 * b[3] + b[4]

\* struct.unpack('<I', b)[0] of four bytes
struct_unpack_I(b) == b[1] + 256 * b[2] + 65536 * b[3] + 16777216 * b[4]

\* stream.read(n): the next n bytes, fewer when the stream ends first
ReadBytes(stream, n) == SubSeq(stream, 1, IF n < Len(stream) THEN n ELSE Len(stream))

\* the stream after n bytes were read from it
AfterRead(stream, n) == SubSeq(stream, (IF n < Len(stream) THEN n ELSE Len(stream)) + 1,
                   Len(stream))

NotRead == [k |-> "none", val |-> Null, code |-> -1, exc |-> Unset, rest |-> <<>>]
Returned(x, rest) == [k |-> "return", val |-> x, code |-> -1, exc |-> Unset, rest |-> rest]
SysExit(code, rest) == [k |-> "exit", val |-> Null, code |-> code, exc |-> Unset, rest |-> rest]
Raised(e, rest) == [k |-> "raise", val |-> Null, code |-> -1, exc |-> e, rest |-> rest]

\* read_message() on the bytes waiting on stdin: what it does, and the bytes it leaves
read_message(stream) ==
    LET raw_length == ReadBytes(stream, 4)
        afterHeader == AfterRead(stream, 4)
    IN
    IF Len(raw_length) = 0 THEN SysExit(0, afterHeader)
    ELSE IF Len(raw_length) # 4 THEN SysExit(1, afterHeader)
    ELSE LET message_length == struct_unpack_I(raw_length)
             rest == AfterRead(afterHeader, message_length)
             message == decode_utf8(ReadBytes(afterHeader, message_length))
         IN
    IF message.k # "ok" THEN Raised(message, rest)
    ELSE Only({IF parsed.k = "ok" THEN Returned(parsed.val, rest) ELSE Raised(parsed, rest) :
               parsed \in {json_loads(message.val)}})

\* weakened variant: send_message with the length written most significant byte first
send_message_big_endian(message) ==
    LET encoded == encode_utf8(json_dumps(message))
        n == Len(encoded)
    IN  <<(n \div 16777216) % 256, (n \div 65536) % 256, (n \div 256) % 256, n % 256>>
        \o encoded

\* send_message(message): the bytes it writes to stdout
send_message(message) ==
    LET encoded == encode_utf8(json_dumps(message))
        length == struct_pack_I(Len(encoded))
    IN  length \o encoded

----------------------------------------------------------------------------
(* The requests the extension (or anything else writing to stdin) sends *)

NoFields ==
    [action |-> Absent, ssh_target |-> Absent, remote_path |-> Absent, ssh_key |-> Absent,
     ssh_port |-> Absent, content |-> Absent, overwrite |-> Absent, plan_data |-> Absent,
     plan_id |-> Absent, settings_json |-> Absent, session_id |-> Absent,
     timestamp |-> Absent, command |-> Absent]

KnownActions ==
    {"test_conn", "check_file", "send_file", "init_queue", "send_plan", "poll_responses",
     "read_heartbeat", "write_settings", "read_session", "reset_session", "run_command",
     "interrupt"}

ActionValues == {Str(a) : a \in KnownActions} \cup {Str("bogus"), Absent}

GoodTarget == Str("u@h")
GoodPath == Str("/srv/my proj")

TargetValues == {Absent, Str(""), GoodTarget, Str("h;x"), Str("h x"), Num(5)}
PathValues == {Absent, GoodPath, Str("plan.md"), Str("/p;x"), Str("/p\\\"x"), Str("/p\nq"),
               List(<<Str("/p")>>)}

\* a request with the fields its action needs, well-formed
Complete(action, target, path) ==
    [NoFields EXCEPT !.action = action, !.ssh_target = target, !.remote_path = path,
                     !.content = Str("# plan"), !.plan_data = Str("{\"id\": \"abc123\"}"),
                     !.plan_id = Str("abc123"), !.settings_json = Str("{}"),
                     !.session_id = Str("sess-1"), !.timestamp = Str("2026-01-01"),
                     !.command = Str("plandrop-history export")]

\* a request with nothing but action, target and path
Bare(action, target, path) ==
    [NoFields EXCEPT !.action = action, !.ssh_target = target, !.remote_path = path]

Good(action) == Complete(Str(action), GoodTarget, GoodPath)

PlanDatas ==
    {Str("{\"id\": \"abc123\"}"), Str("{\"id\": \"a-b_9\", \"steps\": [1, 2]}"),
     Str("{\"id\": \"../x\"}"), Str("{\"id\": \"a b\"}"), Str("{\"id\": \"a.b\"}"),
     Str("{\"id\": \"abc\\n\"}"), Str("{\"id\": \"\"}"), Str("{\"id\": 7}"),
     Str("{\"name\": \"x\"}"), Str("[1]"), Str("\"abc\""), Str("{\"id\": \"abc\""),
     Str("not json"), Num(7), List(<<Num(1)>>)}

PlanIds ==
    {Str("abc123"), Str("a-b_9"), Str("../x"), Str("a/b"), Str("a b"), Str("a.b"),
     Str("abc\n"), Str("a;b"), Num(7), List(<<Str("abc")>>)}

SessionIds ==
    {Absent, Str(""), Str("sess-1"), Str("../x"), Str("a b"), Str("a'; rm -rf /; echo '"),
     Str("abc\n"), Num(7)}

Commands ==
    {Absent, Null, Str(""), Str("rm -rf /"), Str("plandrop-history export"),
     Str(" cd /srv/p && plandrop-history list"), Str("cd /srv/p && rm -rf /"),
     Str("python3 .plandrop/history.py"), Str("python3 evil.py"),
     Str("plandrop-history; rm -rf /"), Str("plandrop-history && rm -rf /"),
     Str("plandrop-history | sh"), Str("plandrop-history $(reboot)"),
     Str("plandrop-history ~reboot~"), Str("cd /x; rm -rf / && plandrop-history"),
     Str("python3 -c 'evil' # history.py"), Num(7)}

Requests ==
    {Complete(a, t, p) : a \in ActionValues, t \in TargetValues, p \in PathValues}
    \cup {Bare(a, t, p) : a \in ActionValues, t \in TargetValues, p \in PathValues}
    \cup {[Good("send_plan") EXCEPT !.plan_data = d] : d \in PlanDatas}
    \cup {[Good("poll_responses") EXCEPT !.plan_id = i] : i \in PlanIds}
    \cup {[Good("reset_session") EXCEPT !.session_id = i, !.timestamp = t] :
              i \in SessionIds, t \in {Absent, Str("2026-01-01")}}
    \cup {[Good("reset_session") EXCEPT !.session_id = Str("sess-1"),
                                        !.remote_path = Str("/srv/a\"b")]}
    \cup {[Good("check_file") EXCEPT !.remote_path = Str("/srv/a\" \"/srv/b")]}
    \cup {[Good("run_command") EXCEPT !.command = c] : c \in Commands}
    \cup {[Good("send_file") EXCEPT !.content = c, !.overwrite = w] :
              c \in {Str(""), Str("# plan"), Num(7)}, w \in {Absent, Bool(TRUE), Bool(FALSE)}}
    \cup {[Good("write_settings") EXCEPT !.settings_json = j] :
              j \in {Str("{}"), Str("{\"permissions\": []}"), Str("{oops"), Num(7)}}
    \cup {[Good(a) EXCEPT !.ssh_key = k, !.ssh_port = q] :
              a \in KnownActions, k \in {Str("/k/id"), Num(7)}, q \in {Absent, Num(2222)}}

----------------------------------------------------------------------------
(* The remote host: its directories and files, and what the commands the     *)
(* relay sends do to them                                                    *)

\* a path with every directory above it
Ancestors(p) == {Slice(p, 1, i - 1) : i \in {i \in 2..Len(p) : Char(p, i) = "/"}}

\* dirs: the directories; files: the content of every file, by path; escapes: whether
\* the echo of the login shell interprets backslash sequences
Host(dirs, files, escapes) == [dirs |-> dirs, files |-> files, escapes |-> escapes]

FileExists(fs, p) == p \in DOMAIN fs.files
Content(fs, p) == IF FileExists(fs, p) THEN fs.files[p] ELSE ""
\* a file can be made where its directory exists ("" is the login directory)
CanCreate(fs, p) == p \notin fs.dirs /\ \E d \in {Dirname(p)} : d \in fs.dirs
WriteFile(fs, p, text) ==
    [fs EXCEPT !.files = [q \in DOMAIN fs.files \cup {p} |->
                              IF q = p THEN text ELSE fs.files[q]]]
RemoveFiles(fs, ps) == [fs EXCEPT !.files = [q \in DOMAIN fs.files \ ps |-> fs.files[q]]]

\* how a command ended: the files after it, its exit status, its stderr and its stdout
Ended(fs, rc, err) == [fs |-> fs, rc |-> rc, err |-> err, out |-> ""]
Printed(fs, rc, out) == [fs |-> fs, rc |-> rc, err |-> "", out |-> out]

AllWords(ts, from) == \A k \in from..Len(ts) : ~ts[k].op
Operands(ts, from) == {ts[k].text : k \in from..Len(ts)}

RECURSIVE CatFiles(_, _, _, _)
\* what cat prints for the operands k to last of ts: the files that are there, in order
CatFiles(ts, k, last, fs) ==
    IF k > last THEN ""
    ELSE Content(fs, ts[k].text) \o CatFiles(ts, k + 1, last, fs)

\* cat file ... 2>/dev/null
IsQuietCat(ts) ==
    /\ Len(ts) >= 5 /\ ts[1] = Word("cat")
    /\ SubSeq(ts, Len(ts) - 2, Len(ts)) = <<Word("2"), Op(">"), Word("/dev/null")>>
    /\ \A k \in 2..(Len(ts) - 3) : ~ts[k].op

\* one simple command, on files fs
RunSimple(ts, fs) ==
    Only({
      CASE step.do = "append" ->
             IF CanCreate(fs, step.file)
             THEN Ended(WriteFile(fs, step.file,
                                  Content(fs, step.file) \o EchoPrints(step.text, fs.escapes)),
                        0, "")
             ELSE Ended(fs, 2, "sh: cannot create " \o step.file \o "\n")
        [] Len(ts) >= 3 /\ ts[1] = Word("rm") /\ ts[2] = Word("-f") /\ AllWords(ts, 3) ->
             Ended(RemoveFiles(fs, Operands(ts, 3)), 0, "")
        [] Len(ts) >= 3 /\ ts[1] = Word("mkdir") /\ ts[2] = Word("-p") /\ AllWords(ts, 3) ->
             Ended([fs EXCEPT !.dirs = @ \cup Operands(ts, 3)
                                         \cup UNION {Ancestors(p) : p \in Operands(ts, 3)}],
                   0, "")
        [] Len(ts) = 2 /\ ts[1] = Word("touch") /\ ~ts[2].op ->
             IF FileExists(fs, ts[2].text) THEN Ended(fs, 0, "")
             ELSE IF CanCreate(fs, ts[2].text) THEN Ended(WriteFile(fs, ts[2].text, ""), 0, "")
             ELSE Ended(fs, 1, "touch: cannot touch\n")
        [] Len(ts) = 3 /\ ts[1] = Word("chmod") /\ ts[2] = Word("+x") /\ ~ts[3].op ->
             IF FileExists(fs, ts[3].text) THEN Ended(fs, 0, "")
             ELSE Ended(fs, 1, "chmod: cannot access\n")
        [] IsQuietCat(ts) ->
             Printed(fs, IF \A k \in 2..(Len(ts) - 3) : FileExists(fs, ts[k].text) THEN 0 ELSE 1,
                     CatFiles(ts, 2, Len(ts) - 3, fs))
        [] OTHER -> Ended(fs, 127, "sh: not found\n") :
      step \in {SimpleCommand(ts)}})

RECURSIVE RunList(_, _, _)
\* an and-list from its command k on: each command runs when the one before it exited 0
RunList(cmds, k, st) ==
    IF k > Len(cmds) \/ st.rc # 0 THEN st
    ELSE RunList(cmds, k + 1, RunSimple(cmds[k], st.fs))

\* a command line given to the login shell
RunLine(cmd, fs) ==
    Only({IF ~r.ok THEN Ended(fs, 2, "sh: syntax error\n")
          ELSE RunList(AndList(r.tokens), 1, Ended(fs, 0, "")) :
          r \in {ShellTokens(cmd)}})

\* scp local target:dest, the destination path taken as it is
RunCopy(text, to, fs) ==
    Only({IF CanCreate(fs, dest) THEN Ended(WriteFile(fs, dest, text), 0, "")
          ELSE Ended(fs, 1, "scp: dest open: No such file or directory\n") :
          dest \in {SplitAfter(to, ":")}})

\* weakened variant: the plan is parsed and written out again
LocalContentReserialised(m, path) ==
    IF path = TempPath("plandrop_plan_", ".json") THEN json_dumps(json_loads(m.plan_data).val)
    ELSE m.content.v

\* what the handler of request m wrote to the local file it copies
LocalContent(m, path) ==
    IF path = WatchScript THEN "#!/bin/bash\n"
    ELSE IF path = TempPath("plandrop_plan_", ".json") THEN m.plan_data.v
    ELSE IF path = TempPath("plandrop_settings_", ".json") THEN m.settings_json.v
    ELSE m.content.v

\* the call of request m, run on a host whose files are fs
RemoteRun(m, call, fs) ==
    IF Prog(call) = "ssh" THEN RunLine(LastArg(call), fs)
    ELSE RunCopy(LocalContent(m, call.argv[Len(call.argv) - 1].v), LastArg(call), fs)

\* a host with two projects and no queue yet
FreshHost(escapes) ==
    Host({"", "/", "/srv", "/srv/proj", "/srv/my proj"}, [p \in {} |-> ""], escapes)

\* a host where the queue of /srv/proj is in use
UsedHost(escapes) ==
    Host({"", "/", "/srv", "/srv/proj", "/srv/my proj", "/srv/proj/.plandrop",
          "/srv/proj/.plandrop/plans", "/srv/proj/.plandrop/responses",
          "/srv/proj/.plandrop/completed"},
         [p \in {"/srv/proj/.plandrop/plans/old1.json",
                 "/srv/proj/.plandrop/responses/old1.jsonl",
                 "/srv/proj/.plandrop/heartbeat",
                 "/srv/proj/.plandrop/session_id",
                 "/srv/proj/.plandrop/session_history.jsonl",
                 "/srv/proj/plan.md"} |->
              CASE p = "/srv/proj/.plandrop/heartbeat" -> "1767225600\n"
                [] p = "/srv/proj/plan.md" -> "# old plan\n"
                [] p = "/srv/proj/.plandrop/session_id" -> "sess-0\n"
                [] p = "/srv/proj/.plandrop/session_history.jsonl" ->
                       "{\"session_id\": \"sess-00\", \"ended\": \"\"}\n"
                [] OTHER -> "{}\n"],
         escapes)

Hosts == {FreshHost(e) : e \in BOOLEAN} \cup {UsedHost(e) : e \in BOOLEAN}

\* no request was answered yet
NoRequest == [msg |-> NoFields, resp |-> NoResp, worked |-> TRUE]

\* paths validate_path accepts whose double quote ends the quoting of the command line early
CraftedPaths ==
    {Str("/srv/proj/.plandrop/interrupt\" \"/x"),
     Str("/srv/proj/.plandrop/session_history.jsonl\" \"/x")}

\* the values the overwrite field of a request takes
OverwriteValues == {Absent, Bool(TRUE), Bool(FALSE)}

\* requests to the handlers that write to the queue
QueueRequests ==
    {[Good("init_queue") EXCEPT !.remote_path = p] : p \in {Str("/srv/proj"), GoodPath}}
    \cup {[Good(a) EXCEPT !.remote_path = Str("/srv/proj")] : a \in {"send_plan", "interrupt"}}
    \cup {[Good("reset_session") EXCEPT !.remote_path = Str("/srv/proj"), !.session_id = i] :
              i \in {Str("sess-1"), Str("abc\n")}}
    \cup {[Good("reset_session") EXCEPT !.remote_path = p, !.session_id = Absent] :
              p \in CraftedPaths}

\* requests to every handler of the queue, for the project /srv/proj, and a
\* reset_session whose path is crafted
SessionRequests ==
    {[Good(a) EXCEPT !.remote_path = Str("/srv/proj"), !.plan_id = Str("old1")] :
         a \in {"init_queue", "send_plan", "poll_responses", "read_heartbeat", "read_session",
                "interrupt", "run_command", "reset_session"}}
    \cup {[Good("reset_session") EXCEPT
               !.remote_path = Str("/srv/proj/.plandrop/session_history.jsonl\" \"/x"),
               !.session_id = Absent]}

\* requests to the handlers that copy a file of the user to the remote host
TransferRequests ==
    {[Good("send_file") EXCEPT !.remote_path = Str("/srv/proj/plan.md"), !.overwrite = w] :
         w \in {Bool(TRUE), Bool(FALSE)}}
    \cup {[Good("send_file") EXCEPT !.remote_path = Str("notes.md")]}
    \cup {[Good("send_plan") EXCEPT !.remote_path = Str("/srv/proj"), !.plan_data = d] :
              d \in {Str("{\"id\": \"abc123\"}"), Str("{ \"id\":\"abc123\",\"v\":2}"),
                     Str("{\"id\": \"old1\"}")}}

----------------------------------------------------------------------------
(* main(): read a frame, handle it, write the response *)

\* what the handler of the current request has done so far
Running == handle_message(msg, outs, watchSh)

RelayInit ==
    /\ pc = "read"
    /\ msg = NoFields
    /\ outs = <<>>
    /\ calls = <<>>
    /\ inflight = NoCall
    /\ resp = NoResp
    /\ nRead = 0
    /\ nWritten = 0
    /\ exitCode = -1
    /\ frame = "none"
    /\ effect = NoEffect
    /\ tmpfiles = {}

FramerIdle ==
    stdin = <<>> /\ stdout = <<>> /\ lastRead = NotRead /\ stdinWas = <<>> /\ lastSent = Null

ValidatorIdle == vIn = "" /\ vTarget = Unset /\ vPath = Unset

\* the remote files are not followed
QueueIdle == remote = FreshHost(FALSE) /\ before = remote /\ prev = NoRequest

HarnessIdle == ValidatorIdle /\ FramerIdle /\ QueueIdle

Init == RelayInit /\ watchSh \in BOOLEAN /\ HarnessIdle

\* read_message returns a dict: the loop goes on to handle_message
ReadMessage ==
    /\ pc = "read"
    /\ nRead < MaxRequests
    /\ \E m \in Requests : msg' = m
    /\ frame' = "object"
    /\ pc' = "handle"
    /\ nRead' = nRead + 1
    /\ outs' = <<>>
    /\ calls' = <<>>
    /\ resp' = NoResp
    /\ effect' = NoEffect
    /\ UNCHANGED <<inflight, nWritten, exitCode, watchSh, tmpfiles, harnessVars>>

\* the body is not JSON (json.loads raises) or is JSON but no dict (message.get raises):
\* the exception reaches main's `except Exception`
ReadUnusable ==
    /\ pc = "read"
    /\ nRead < MaxRequests
    /\ \E k \in {"array", "garbage"} :
          /\ frame' = k
          /\ resp' = Error(IF k = "array" THEN "object has no attribute 'get'"
                           ELSE "Expecting value")
    /\ pc' = "fatal"
    /\ nRead' = nRead + 1
    /\ UNCHANGED <<msg, outs, calls, inflight, nWritten, exitCode, watchSh, tmpfiles, effect,
                   harnessVars>>

\* no byte left on stdin: sys.exit(0)
ReadEOF ==
    /\ pc = "read"
    /\ pc' = "exited"
    /\ exitCode' = 0
    /\ UNCHANGED <<msg, outs, calls, inflight, resp, nRead, nWritten, watchSh, tmpfiles, frame,
                   effect, harnessVars>>

\* one to three bytes of header: sys.exit(1)
ReadShortHeader ==
    /\ pc = "read"
    /\ pc' = "exited"
    /\ exitCode' = 1
    /\ UNCHANGED <<msg, outs, calls, inflight, resp, nRead, nWritten, watchSh, tmpfiles, frame,
                   effect, harnessVars>>

\* the handler reaches a subprocess.run call: the relay blocks in it
StartCall ==
    /\ pc = "handle"
    /\ Running.kind = "call"
    /\ inflight' = Running.call
    /\ calls' = Append(calls, Running.call)
    /\ pc' = "wait"
    /\ tmpfiles' = (tmpfiles \cup Running.made) \ Running.unlinked
    /\ UNCHANGED <<msg, outs, resp, nRead, nWritten, exitCode, watchSh, frame, effect,
                   harnessVars>>

\* weakened variant: a transport call that stalls for good
CallNeverReturns ==
    /\ pc = "wait"
    /\ pc' = "wait"
    /\ UNCHANGED <<msg, outs, calls, inflight, resp, nRead, nWritten, exitCode, watchSh,
                   tmpfiles, frame, effect, harnessVars>>

\* subprocess.run is over: the child exited, was killed at the timeout (when the call has
\* one), or never started
CallReturns ==
    /\ pc = "wait"
    /\ \E r \in Outcomes :
          /\ r.kind = "timeout" => inflight.timeout > 0
          /\ outs' = Append(outs, r)
          /\ effect' \in RemoteEffects(inflight, r)
    /\ inflight' = NoCall
    /\ pc' = "handle"
    /\ UNCHANGED <<msg, calls, resp, nRead, nWritten, exitCode, watchSh, tmpfiles, frame,
                   harnessVars>>

\* weakened variant: main drops the handler's response and reads the next frame
ReturnUnanswered ==
    /\ pc = "handle"
    /\ Running.kind = "return"
    /\ resp' = Running.resp
    /\ pc' = "read"
    /\ tmpfiles' = (tmpfiles \cup Running.made) \ Running.unlinked
    /\ UNCHANGED <<msg, outs, calls, inflight, nRead, nWritten, exitCode, watchSh, frame,
                   effect, harnessVars>>

\* the handler returns its response to main
HandlerReturns ==
    /\ pc = "handle"
    /\ Running.kind = "return"
    /\ resp' = Running.resp
    /\ pc' = "send"
    /\ tmpfiles' = (tmpfiles \cup Running.made) \ Running.unlinked
    /\ UNCHANGED <<msg, outs, calls, inflight, nRead, nWritten, exitCode, watchSh, frame,
                   effect, harnessVars>>

\* an exception leaves the handler and reaches main's `except Exception`
HandlerRaises ==
    /\ pc = "handle"
    /\ Running.kind = "raise"
    /\ resp' = Error(Running.exc.msg)
    /\ pc' = "fatal"
    /\ tmpfiles' = (tmpfiles \cup Running.made) \ Running.unlinked
    /\ UNCHANGED <<msg, outs, calls, inflight, nRead, nWritten, exitCode, watchSh, frame,
                   effect, harnessVars>>

\* send_message(response), then back to read_message
SendMessage ==
    /\ pc = "send"
    /\ nWritten' = nWritten + 1
    /\ pc' = "read"
    /\ msg' = NoFields
    /\ outs' = <<>>
    /\ calls' = <<>>
    /\ resp' = NoResp
    /\ frame' = "none"
    /\ effect' = NoEffect
    /\ UNCHANGED <<inflight, nRead, exitCode, watchSh, tmpfiles, harnessVars>>

\* main's except branch: send_message({"status": "error", ...}), then sys.exit(1)
SendFatal ==
    /\ pc = "fatal"
    /\ nWritten' = nWritten + 1
    /\ pc' = "exited"
    /\ exitCode' = 1
    /\ UNCHANGED <<msg, outs, calls, inflight, resp, nRead, watchSh, tmpfiles, frame, effect,
                   harnessVars>>

Next ==
    \/ ReadMessage
    \/ ReadUnusable
    \/ ReadEOF
    \/ ReadShortHeader
    \/ StartCall
    \/ CallReturns
    \/ HandlerReturns
    \/ HandlerRaises
    \/ SendMessage
    \/ SendFatal

Spec == Init /\ [][Next]_vars

\* the relay's own steps are taken when they can be; a transport call returns or reaches
\* its timeout; nothing obliges the peer to send another frame
Fairness ==
    /\ WF_vars(StartCall)
    /\ WF_vars(CallReturns)
    /\ WF_vars(HandlerReturns)
    /\ WF_vars(HandlerRaises)
    /\ WF_vars(SendMessage)
    /\ WF_vars(SendFatal)

LiveSpec == Init /\ [][Next]_vars /\ Fairness

----------------------------------------------------------------------------
(* Validator harness: validate_ssh_target and validate_path on every string over *)
(* HarnessChars of at most MaxStrLen characters                                   *)

HarnessChars ==
    {"a", "Z", "0", "_", "-", "@", ".", "/", " ", "\t", "\f", ";", "&", "|", BACKTICK,
     "$", "(", ")", "<", ">", "\n", "\r", NUL, "\\", "\"", "'"}

HarnessInit == RelayInit /\ watchSh = TRUE /\ HarnessIdle

Extend ==
    /\ Len(vIn) < MaxStrLen
    /\ \E c \in HarnessChars : vIn' = vIn \o c
    /\ vTarget' = Unset
    /\ vPath' = Unset
    /\ UNCHANGED <<relayVars, framerVars>>

ApplyValidateTarget ==
    /\ vTarget = Unset
    /\ vTarget' = validate_ssh_target(Str(vIn))
    /\ UNCHANGED <<vIn, vPath, relayVars, framerVars>>

ApplyValidatePath ==
    /\ vPath = Unset
    /\ vPath' = validate_path(Str(vIn))
    /\ UNCHANGED <<vIn, vTarget, relayVars, framerVars>>

HarnessNext == Extend \/ ApplyValidateTarget \/ ApplyValidatePath

HarnessSpec == HarnessInit /\ [][HarnessNext]_vars

----------------------------------------------------------------------------
(* Framer harness: read_message on byte streams a peer can write, send_message on *)
(* messages the relay answers with, and the two back to back                      *)

RECURSIVE Repeat(_, _)
Repeat(c, n) ==
    IF n = 0 THEN ""
    ELSE IF n % 2 = 1 THEN c \o Repeat(c, n - 1)
    ELSE Repeat(c, n \div 2) \o Repeat(c, n \div 2)

\* longest run of padding in the harness: frames longer than one length byte can count
LongRun == 250

\* a frame as the browser (or the test driver) writes it
Frame(text) == struct_pack_I(Len(text)) \o encode_utf8(text)

Bodies ==
    {"{}", "{\"action\": \"test_conn\", \"ssh_target\": \"u@h\"}", "[1]", "\"abc\"", "7",
     "null", "not json", "", " {\"a\": \"x\\ny\"} ", "{\"a\": 1}" \o Repeat(" ", LongRun)}

Streams ==
    {<<2>>, <<2, 0>>, <<2, 0, 0>>, <<2, 0, 0, 0>>}
    \cup {Frame(b) : b \in Bodies}
    \cup {Frame(a) \o Frame(b) : a \in {"{}", "[1]"}, b \in {"{}", "not json", "7"}}
    \cup {Frame("{}") \o <<7>>, Frame("{\"a\": 1}") \o <<7, 0, 0>>}
    \cup {struct_pack_I(5) \o encode_utf8("{}"), struct_pack_I(9) \o encode_utf8("{\"a\":")}
    \cup {struct_pack_I(1) \o <<255>>, struct_pack_I(3) \o <<34, 255, 34>> \o Frame("{}")}

Messages ==
    {Obj(<<>>), Error("Unknown action: None"), Error("Missing ssh_target or remote_path"),
     Response("empty", <<>>),
     Response("ok", <<Field("content", Str("{\"type\": \"text\"}\n{\"a\\b\": 1}\n"))>>),
     Response("ok", <<Field("output", Str(Repeat("x", LongRun + 10))), Field("error", Str(""))>>),
     Response("success", <<Field("exists", Bool(TRUE)), Field("size", Num(1234)),
                           Field("modified", Str("strftime(34)"))>>),
     Obj(<<Field("action", Str("send_plan")), Field("ssh_port", Num(2222)),
           Field("tags", List(<<Str("a"), Null, Bool(FALSE), List(<<>>)>>)),
           Field("nested", Obj(<<Field("k", Str("v'\t"))>>))>>)}

\* the bytes that may follow a frame on the wire
Tails == {<<>>, <<7>>, Frame("{}")}

BytesArrive ==
    /\ stdin = <<>> /\ lastRead = NotRead /\ lastSent = Null
    /\ \E b \in Streams : stdin' = b
    /\ UNCHANGED <<stdout, lastRead, stdinWas, lastSent, relayVars, validatorVars>>

CallReadMessage ==
    /\ lastRead.k \in {"none", "return"}
    /\ stdout = <<>>
    /\ lastRead' = read_message(stdin)
    /\ stdinWas' = stdin
    /\ stdin' = lastRead'.rest
    /\ UNCHANGED <<stdout, lastSent, relayVars, validatorVars>>

CallSendMessage ==
    /\ stdin = <<>> /\ lastRead = NotRead /\ lastSent = Null
    /\ \E m \in Messages :
          /\ stdout' = stdout \o send_message(m)
          /\ lastSent' = m
    /\ UNCHANGED <<stdin, lastRead, stdinWas, relayVars, validatorVars>>

\* what was written is fed back as input, followed by whatever a peer sends next
Loopback ==
    /\ stdout # <<>>
    /\ \E t \in Tails : stdin' = stdout \o t
    /\ stdout' = <<>>
    /\ UNCHANGED <<lastRead, stdinWas, lastSent, relayVars, validatorVars>>

FramerNext == BytesArrive \/ CallReadMessage \/ CallSendMessage \/ Loopback

FramerSpec == HarnessInit /\ [][FramerNext]_vars

----------------------------------------------------------------------------
(* The relay against a remote host whose files are followed from request to  *)
(* request: requests to the handlers that write to the queue, each call run   *)
(* on the host (or lost with the connection, or cut off at the timeout)       *)

\* request frames the relay reads in one run of the queue model
MaxQueueRequests == 2

\* every call of o reached the host and ran there to its end
Connected(o) == \A i \in 1..Len(o) : o[i].kind = "exit" /\ o[i].rc # 255

QueueInit ==
    /\ RelayInit /\ watchSh = TRUE
    /\ ValidatorIdle /\ FramerIdle
    /\ remote \in Hosts /\ before = remote /\ prev = NoRequest

\* read_message() returns one of the requests
ReadFrom(requests) ==
    /\ pc = "read"
    /\ nRead < MaxQueueRequests
    /\ \E m \in requests : msg' = m
    /\ frame' = "object"
    /\ pc' = "handle"
    /\ nRead' = nRead + 1
    /\ outs' = <<>>
    /\ calls' = <<>>
    /\ resp' = NoResp
    /\ before' = remote
    /\ UNCHANGED <<inflight, nWritten, exitCode, watchSh, tmpfiles, effect, remote, prev,
                   validatorVars, framerVars>>

QueueRead == ReadFrom(QueueRequests)

\* the call reaches the host and runs there to its end
RemoteRuns ==
    /\ pc = "wait"
    /\ \E st \in {RemoteRun(msg, inflight, remote)} :
          /\ outs' = Append(outs, Exit(st.rc, st.out, st.err))
          /\ remote' = st.fs
    /\ inflight' = NoCall
    /\ pc' = "handle"
    /\ UNCHANGED <<msg, calls, resp, nRead, nWritten, exitCode, watchSh, tmpfiles, frame,
                   effect, before, prev, validatorVars, framerVars>>

\* ssh or scp cannot connect: nothing runs on the host
TransportFails ==
    /\ pc = "wait"
    /\ outs' = Append(outs, ConnectFailed)
    /\ inflight' = NoCall
    /\ pc' = "handle"
    /\ UNCHANGED <<msg, calls, resp, nRead, nWritten, exitCode, watchSh, tmpfiles, frame,
                   effect, queueVars, validatorVars, framerVars>>

\* the relay stops waiting at the timeout: the command has run on the host, or has not
CallTimesOut ==
    /\ pc = "wait"
    /\ inflight.timeout > 0
    /\ outs' = Append(outs, TimeoutExpired)
    /\ remote' \in {remote, RemoteRun(msg, inflight, remote).fs}
    /\ inflight' = NoCall
    /\ pc' = "handle"
    /\ UNCHANGED <<msg, calls, resp, nRead, nWritten, exitCode, watchSh, tmpfiles, frame,
                   effect, before, prev, validatorVars, framerVars>>

\* send_message(response), then back to read_message
QueueSend ==
    /\ pc = "send"
    /\ nWritten' = nWritten + 1
    /\ pc' = "read"
    /\ msg' = NoFields
    /\ outs' = <<>>
    /\ calls' = <<>>
    /\ resp' = NoResp
    /\ frame' = "none"
    /\ prev' = [msg |-> msg, resp |-> resp, worked |-> Connected(outs)]
    /\ UNCHANGED <<inflight, nRead, exitCode, watchSh, tmpfiles, effect, remote, before,
                   validatorVars, framerVars>>

QueueNext ==
    \/ QueueRead
    \/ StartCall
    \/ RemoteRuns
    \/ TransportFails
    \/ CallTimesOut
    \/ HandlerReturns
    \/ QueueSend

QueueSpec == QueueInit /\ [][QueueNext]_vars

\* the same relay and host, the requests being those that copy a file of the user
TransferInit ==
    /\ RelayInit /\ watchSh = TRUE
    /\ ValidatorIdle /\ FramerIdle
    /\ remote \in {FreshHost(FALSE), UsedHost(FALSE)} /\ before = remote /\ prev = NoRequest

TransferRead == ReadFrom(TransferRequests)

TransferNext ==
    \/ TransferRead
    \/ StartCall
    \/ RemoteRuns
    \/ TransportFails
    \/ CallTimesOut
    \/ HandlerReturns
    \/ QueueSend

TransferSpec == TransferInit /\ [][TransferNext]_vars

\* the same relay and host, the requests going to every handler of the queue
SessionRead == ReadFrom(SessionRequests)

SessionNext ==
    \/ SessionRead
    \/ StartCall
    \/ RemoteRuns
    \/ TransportFails
    \/ CallTimesOut
    \/ HandlerReturns
    \/ QueueSend

SessionSpec == TransferInit /\ [][SessionNext]_vars

----------------------------------------------------------------------------
(* Vocabulary of the properties *)

\* the request in hand is a JSON object routed to handler `a`
Handling(a) == frame = "object" /\ Is(msg.action, a)

\* the request in hand is routed to one of the twelve handlers
HandlingKnown == frame = "object" /\ msg.action.t = "str" /\ msg.action.v \in KnownActions

\* a response for the request in hand exists (about to be written, or written on the way out)
Answered == pc \in {"send", "fatal"} \/ (pc = "exited" /\ frame = "object")

\* the request in hand is refused: no ssh or scp was started for it, and its answer is an error
Refused == calls = <<>> /\ (Answered => Status(resp) = "error")

TargetFails == validate_ssh_target(msg.ssh_target).k # "ok"
PathFails == validate_path(msg.remote_path).k # "ok"

\* the messages that say a value is invalid
ValidationMessages ==
    {"SSH target contains invalid characters", "Path contains invalid characters",
     "Path contains invalid escape sequences"}

\* the fields a handler wants non-empty before it validates anything
Required(a) ==
    IF a = "test_conn" THEN {"ssh_target"}
    ELSE {"ssh_target", "remote_path"}
         \cup (IF a = "send_file" THEN {"content"} ELSE {})
         \cup (IF a = "send_plan" THEN {"plan_data"} ELSE {})
         \cup (IF a = "poll_responses" THEN {"plan_id"} ELSE {})
         \cup (IF a = "write_settings" THEN {"settings_json"} ELSE {})

\* s matches ^[A-Za-z0-9_-]+$ from its first to its last character
FullMatchId(s) == s # "" /\ CharsOf(s) \subseteq IdChars

IsFullId(x) == x.t = "str" /\ FullMatchId(x.v)

\* every ssh/scp run for the request in hand ended with exit status 0
TransportWorked == \A i \in 1..Len(outs) : outs[i].kind = "exit" /\ outs[i].rc = 0

----------------------------------------------------------------------------
(* C1: validation failures are refused before any process is started *)

\* C1 as stated: for every handler, a request whose ssh_target fails validate_ssh_target or
\* whose remote_path fails validate_path is answered with status error and a message saying
\* the value is invalid, and no ssh or scp is run for it; a request with a valid target and
\* a valid path never gets such a message.
C1_AsStated ==
    HandlingKnown =>
        /\ (TargetFails \/ PathFails) =>
               /\ Refused
               /\ Answered => Message(resp) \in ValidationMessages
        /\ (~TargetFails /\ ~PathFails /\ Answered) => Message(resp) \notin ValidationMessages

\* C1 amended: every handler except test_conn refuses (status error, no ssh or scp) a
\* request whose ssh_target or remote_path fails its validator; test_conn does so for the
\* ssh_target only and never looks at remote_path.  The message says the value is invalid
\* when all the fields the handler requires are non-empty and the failing value is a
\* non-empty string; a request with a valid target and a valid path never gets such a message.
C1_ValidationRefuses ==
    HandlingKnown =>
        LET a == msg.action.v
            fails == TargetFails \/ (PathFails /\ a # "test_conn")
            strings == \A f \in Required(a) \cap {"ssh_target", "remote_path"} :
                           msg[f].t = "str"
            present == \A f \in Required(a) : Truthy(msg[f])
        IN  /\ fails => Refused
            /\ (fails /\ strings /\ present /\ Answered) =>
                   Message(resp) \in ValidationMessages
            /\ (~TargetFails /\ ~PathFails /\ Answered) =>
                   Message(resp) \notin ValidationMessages

\* check_file is about to answer that the path of a request with a good target is invalid
C1_Witness ==
    /\ Handling("check_file")
    /\ msg.ssh_target = GoodTarget
    /\ msg.remote_path = Str("/p;x")
    /\ pc = "send"
    /\ calls = <<>>
    /\ Message(resp) = "Path contains invalid characters"

----------------------------------------------------------------------------
(* C2, C3: the validators, on every string of the harness *)

ShellMetaChars == {";", "&", "|", BACKTICK, "$", "(", ")", "<", ">", "\n", "\r", NUL}

\* C2: validate_ssh_target(s) raises ValueError exactly when s is empty or holds one of
\* ; & | backtick $ ( ) < > newline CR NUL or a whitespace character, and returns s
\* itself for every other string.
C2_TargetExactly ==
    vTarget # Unset =>
        IF vIn = "" \/ CharsOf(vIn) \cap (ShellMetaChars \cup {" ", "\t", "\f"}) # {}
        THEN vTarget.k = "ValueError"
        ELSE vTarget = Valid(Str(vIn))

\* a target with a tab in it has been rejected
C2_Witness == vTarget.k = "ValueError" /\ vIn = "a\t"

\* C3: validate_path(s) raises ValueError exactly when s is empty, holds one of
\* ; & | backtick $ ( ) < > newline CR NUL, or holds a backslash followed at once by
\* a double or single quote, and returns s itself for every other string, spaces included.
C3_PathExactly ==
    vPath # Unset =>
        IF \/ vIn = ""
           \/ CharsOf(vIn) \cap ShellMetaChars # {}
           \/ \E i \in 1..(Len(vIn) - 1) :
                  Char(vIn, i) = "\\" /\ Char(vIn, i + 1) \in {"\"", "'"}
        THEN vPath.k = "ValueError"
        ELSE vPath = Valid(Str(vIn))

\* a path that is a backslash and a single quote has been rejected
C3_Witness == vPath.k = "ValueError" /\ vIn = "\\'"

----------------------------------------------------------------------------
(* C4, C5, C6: plan and session identifiers *)

\* the identifier of the plan the request in hand names: plan_id for poll_responses, the id
\* inside plan_data for send_plan (Absent when plan_data holds no JSON object)
PlanIdentifier ==
    IF Handling("poll_responses") THEN msg.plan_id
    ELSE LET plan == json_loads(msg.plan_data) IN
         IF plan.k = "ok" /\ plan.val.t = "obj" THEN DictGet(plan.val, "id") ELSE Absent

\* C4: send_plan and poll_responses refuse (status error, no transport call) every plan
\* identifier that does not match ^[A-Za-z0-9_-]+$ from end to end, a trailing newline
\* included.
C4_OnlyFullIds ==
    (Handling("send_plan") \/ Handling("poll_responses")) =>
        (IsFullId(PlanIdentifier) \/ Refused)

\* C5: with a valid ssh_target and remote_path (and a transport that works), send_plan
\* answers success if and only if plan_data parses as JSON and its id matches
\* ^[A-Za-z0-9_-]+$.
C5_SuccessIffParsesAndMatches ==
    ( /\ Handling("send_plan")
      /\ ~TargetFails /\ ~PathFails
      /\ msg.ssh_key.t \in {"absent", "str"}
      /\ pc \in {"send", "fatal"}
      /\ TransportWorked )
    => (Status(resp) = "success" <=> IsFullId(PlanIdentifier))

\* C6: reset_session refuses (status error, no transport call) every session_id that does
\* not match ^[A-Za-z0-9_-]+$ from end to end.
C6_SessionIdChecked ==
    (Handling("reset_session") /\ Truthy(msg.session_id)) =>
        (IsFullId(msg.session_id) \/ Refused)

----------------------------------------------------------------------------
(* C7, C8: run_command *)

\* the command of the request in hand, '' when the key is missing
Command == IF msg.command.t = "absent" THEN Str("") ELSE msg.command

\* what is left of a command once a leading `cd <dir> &&` is taken off
Remainder(command) ==
    LET stripped == Strip(command) IN
    IF StartsWith(stripped, "cd ") /\ Contains(stripped, "&&")
    THEN Strip(SplitAfter(stripped, "&&"))
    ELSE stripped

AllowListedPrograms == {"plandrop-history", "python3 "}

StartsAllowListed(command) ==
    \E p \in AllowListedPrograms : StartsWith(Remainder(command), p)

\* C7: run_command starts ssh only for a command whose remainder, after a leading
\* `cd <dir> &&`, starts with an allow-listed program name; every other command (rm -rf /,
\* an empty or missing one) is answered with status error and nothing is run.
C7_AllowListGuardsTransport ==
    Handling("run_command") =>
        \/ Command.t = "str" /\ StartsAllowListed(Command.v)
        \/ Refused

\* `rm -rf /`, sent with a good target and path, is about to be answered with an error
C7_Witness ==
    /\ Handling("run_command")
    /\ msg.command = Str("rm -rf /")
    /\ ~TargetFails /\ ~PathFails
    /\ pc = "send"
    /\ calls = <<>>
    /\ Status(resp) = "error"

\* the command runs a second program: it holds ; | a backtick or $( somewhere, or && after
\* the one leading cd
Chains(command) ==
    \/ \E c \in {";", "|", BACKTICK, "$("} : Contains(command, c)
    \/ Contains(Remainder(command), "&&")

\* C8: no command that chains a further program with ; && | a backtick or $( ) is handed
\* to ssh by run_command.
C8_NoChainedProgram ==
    (Handling("run_command") /\ calls # <<>>) => ~Chains(LastArg(calls[1]))

----------------------------------------------------------------------------
(* C9, C10: the main loop *)

\* C9: a request that is a JSON object never ends the relay: whatever its fields hold, the
\* failure is answered with status error and the relay reads the next frame.
C9_ObjectNeverFatal == frame = "object" => pc # "fatal"

\* C10: the relay is half-duplex: a frame is read only when every frame read before has
\* had its one response written and no ssh or scp is being waited on; between a read and
\* its write the relay is exactly one response behind; it exits with as many responses
\* written as requests read.
C10_HalfDuplex ==
    /\ pc = "read" => nWritten = nRead /\ inflight = NoCall
    /\ pc \in {"handle", "wait", "send", "fatal"} => nRead = nWritten + 1
    /\ pc = "exited" => nWritten = nRead
    /\ inflight # NoCall => pc = "wait"

\* the second request is waiting on a transport call, the first one answered
C10_Witness == pc = "wait" /\ inflight # NoCall /\ nRead = 2 /\ nWritten = 1

----------------------------------------------------------------------------
(* C11, C12: framing *)

\* the unsigned number four bytes hold, least significant byte first
LittleEndian(b) == b[1] + 256 * b[2] + 65536 * b[3] + 16777216 * b[4]

\* bytes i..j of a byte string
BytesFrom(b, i, j) == [k \in 1..(j - i + 1) |-> b[i + k - 1]]

C12_RoundTrip ==
    /\ (lastSent # Null /\ stdout # <<>>) =>
           /\ Len(stdout) >= 4
           /\ LittleEndian(stdout) = Len(stdout) - 4
           /\ LET text == decode_utf8(BytesFrom(stdout, 5, Len(stdout)))
              IN  text.k = "ok" /\ json_loads(text.val) = Valid(lastSent)
    /\ (lastSent # Null /\ lastRead # NotRead) =>
           LET sent == send_message(lastSent) IN
           (Len(stdinWas) >= Len(sent) /\ BytesFrom(stdinWas, 1, Len(sent)) = sent) =>
               /\ lastRead.k = "return"
               /\ lastRead.val = lastSent
               /\ stdin = BytesFrom(stdinWas, Len(sent) + 1, Len(stdinWas))

\* a response longer than 255 bytes came back as it was sent, the byte behind it unread
C12_Witness ==
    /\ lastSent # Null
    /\ lastRead.k = "return"
    /\ lastRead.val = lastSent
    /\ Len(stdinWas) > 260
    /\ stdin = <<7>>

----------------------------------------------------------------------------
(* C13, C14: unknown actions and missing fields *)

\* the handler that bears the name of the action of the request in hand
OwnHandler ==
    LET a == msg.action.v IN
    CASE a = "test_conn" -> action_test_conn(msg, outs)
      [] a = "check_file" -> action_check_file(msg, outs)
      [] a = "send_file" -> action_send_file(msg, outs)
      [] a = "init_queue" -> action_init_queue(msg, outs, watchSh)
      [] a = "send_plan" -> action_send_plan(msg, outs)
      [] a = "poll_responses" -> action_poll_responses(msg, outs)
      [] a = "read_heartbeat" -> action_read_heartbeat(msg, outs)
      [] a = "write_settings" -> action_write_settings(msg, outs)
      [] a = "read_session" -> action_read_session(msg, outs)
      [] a = "reset_session" -> action_reset_session(msg, outs)
      [] a = "run_command" -> action_run_command(msg, outs)
      [] a = "interrupt" -> action_interrupt(msg, outs)

\* C13: a request whose action is none of the twelve names, or has no action, is answered
\* {status: error, message: "Unknown action: <name>"} (None for a missing action), starts
\* no ssh or scp and leaves the relay running; each of the twelve names is handled by the
\* handler of that name.
C13_UnknownAction ==
    frame = "object" =>
        IF HandlingKnown THEN Running = OwnHandler
        ELSE /\ calls = <<>>
             /\ pc \in {"handle", "send"}
             /\ pc = "send" =>
                    resp = Error("Unknown action: "
                                 \o (IF msg.action.t = "str" THEN msg.action.v ELSE "None"))

\* a request without an action is about to be answered "Unknown action: None"
C13_Witness ==
    /\ frame = "object"
    /\ msg.action = Absent
    /\ pc = "send"
    /\ calls = <<>>
    /\ Message(resp) = "Unknown action: None"

\* a value Python takes for false: missing, null, "", 0, false, [] or {}
Empty(x) ==
    \/ x.t \in {"absent", "null"}
    \/ x \in {Str(""), Num(0), Bool(FALSE), List(<<>>), Obj(<<>>)}

\* the request in hand is about to be, or has been, answered "Missing ...", with nothing
\* run for it and the relay going on
AnsweredMissing ==
    /\ calls = <<>>
    /\ pc \in {"handle", "send"}
    /\ pc = "send" => Status(resp) = "error" /\ StartsWith(Message(resp), "Missing")

\* C14 as stated: a request that lacks, or gives an empty value for, one of the fields its
\* action requires is answered with status error and a message starting with Missing,
\* whatever else is wrong with it, and nothing is run.
C14_AsStated ==
    (HandlingKnown /\ \E f \in Required(msg.action.v) : Empty(msg[f])) => AnsweredMissing

\* C14 amended: the same, where the required fields are ssh_target for test_conn and
\* ssh_target and remote_path for every other action, plus plan_data for send_plan, plan_id
\* for poll_responses and settings_json for write_settings, each missing or empty; and
\* content for send_file, which counts as missing only when it is absent or null (an empty
\* string is sent as an empty file).
C14_MissingFields ==
    ( /\ HandlingKnown
      /\ \E f \in Required(msg.action.v) :
             IF f = "content" THEN msg[f].t \in {"absent", "null"} ELSE Empty(msg[f]) )
    => AnsweredMissing

\* check_file with a target and no path is about to be answered "Missing ..."
C14_Witness ==
    /\ Handling("check_file")
    /\ msg.ssh_target = Str("h;x")
    /\ msg.remote_path = Absent
    /\ pc = "send"
    /\ Message(resp) = "Missing ssh_target or remote_path"

----------------------------------------------------------------------------
(* C15, C16: timeouts and progress *)

\* the longest timeout a transport call is given, in seconds
LongestTimeout == 60

\* C15: every ssh or scp is run with a timeout (of at most LongestTimeout seconds), and
\* once a call of a request has timed out no further call is made for that request and
\* its answer has status error with a message containing "timed out".
C15_Timeouts ==
    /\ \A i \in 1..Len(calls) : calls[i].timeout \in 1..LongestTimeout
    /\ \A i \in 1..Len(outs) :
           outs[i].kind = "timeout" =>
               /\ Len(outs) = i
               /\ Len(calls) = i
               /\ pc \in {"handle", "send"}
               /\ pc = "send" =>
                      Status(resp) = "error" /\ Contains(Message(resp), "timed out")

\* init_queue, its mkdir done, is about to answer that the copy of watch.sh timed out
C15_Witness ==
    /\ Handling("init_queue")
    /\ Len(outs) = 2
    /\ outs[2].kind = "timeout"
    /\ Prog(calls[2]) = "scp"
    /\ pc = "send"
    /\ Message(resp) = "Connection timed out"

\* C16: the relay never hangs: with transport calls that return or time out, every request
\* frame read is eventually followed by its response frame (written before any exit).
C16_NeverHangs == [](nRead > nWritten => <>(nRead = nWritten))

\* init_queue is about to answer after three transport calls
C16_Witness ==
    /\ Handling("init_queue")
    /\ Len(outs) = 3
    /\ pc = "send"
    /\ nRead = nWritten + 1

----------------------------------------------------------------------------
(* C17, C18: reading the remote files *)

\* the request passed the handler's checks and its one call has ended
ReadAnswered(a) ==
    /\ Handling(a)
    /\ Truthy(msg.ssh_target) /\ Truthy(msg.remote_path)
    /\ ~TargetFails /\ ~PathFails
    /\ Len(calls) = 1 /\ Len(outs) = 1
    /\ pc = "send"

\* the transport itself failed: no connection, no answer in time, no ssh program
TransportFailed(r) == r.kind \in {"timeout", "notfound"} \/ (r.kind = "exit" /\ r.rc = 255)

\* cat printed the file and succeeded
FilePresent(r) == r.kind = "exit" /\ r.rc = 0
\* cat found no file: nothing printed, exit status 1
FileAbsent(r) == r.kind = "exit" /\ r.rc = 1 /\ r.stdout = ""

Blank(s) == CharsOf(s) \subseteq PyWhitespace

\* the status for a missing or blank file, and the field of the value
NegativeStatus(a) == IF a = "read_heartbeat" THEN "not_running" ELSE "empty"
ValueField(a) == IF a = "read_heartbeat" THEN "timestamp" ELSE "session_id"

\* C17: read_heartbeat and read_session with valid inputs answer ok with the trimmed
\* content when the file is present and not blank, not_running (heartbeat) or empty
\* (session) when it is absent or blank, and status error when, and only when, the
\* transport itself fails.
C17_ErrorIffTransportFails ==
    \A a \in {"read_heartbeat", "read_session"} :
        ReadAnswered(a) =>
            /\ Status(resp) = "error" <=> TransportFailed(outs[1])
            /\ FilePresent(outs[1]) /\ ~Blank(outs[1].stdout) =>
                   resp = Response("ok", <<Field(ValueField(a), Str(Strip(outs[1].stdout)))>>)
            /\ FileAbsent(outs[1]) \/ (FilePresent(outs[1]) /\ Blank(outs[1].stdout)) =>
                   resp = Response(NegativeStatus(a), <<>>)

ResponsesFile == msg.remote_path.v \o "/.plandrop/responses/" \o msg.plan_id.v \o ".jsonl"

\* poll_responses has read the file of its plan, in this request
PollAnswered ==
    /\ ReadAnswered("poll_responses")
    /\ Prog(calls[1]) = "ssh"
    /\ LastArg(calls[1]) = "cat \"" \o ResponsesFile \o "\" 2>/dev/null"

\* poll_responses answers without reading the file in that request
PollWithoutRead ==
    /\ Handling("poll_responses")
    /\ pc = "send"
    /\ Status(resp) \in {"ok", "empty"}
    /\ ~PollAnswered

----------------------------------------------------------------------------
(* C19, C20: reset_session *)

\* reset_session passed its checks and has answered
ResetAnswered ==
    /\ Handling("reset_session")
    /\ Truthy(msg.ssh_target) /\ Truthy(msg.remote_path)
    /\ ~TargetFails /\ ~PathFails
    /\ msg.ssh_key.t \in {"absent", "str"}
    /\ pc = "send"

SessionFile == msg.remote_path.v \o "/.plandrop/session_id"
HistoryFile == msg.remote_path.v \o "/.plandrop/session_history.jsonl"

\* the entry {session_id, ended} of the request in hand
HistoryEntry ==
    Obj(<<Field("session_id", msg.session_id),
          Field("ended", IF Truthy(msg.timestamp) THEN msg.timestamp ELSE Str(""))>>)

\* text is one terminated line that reads back as the entry
IsEntryLine(text) ==
    /\ Len(text) >= 1
    /\ Char(text, Len(text)) = "\n"
    /\ "\n" \notin CharsOf(Slice(text, 1, Len(text) - 1))
    /\ json_loads(Str(Slice(text, 1, Len(text) - 1))) = Valid(HistoryEntry)

DeleteSessionFile == [do |-> "delete", file |-> SessionFile, text |-> ""]

\* C19: reset_session issues exactly one transport call.  With a session_id, its command
\* first appends one JSON line {session_id, ended} to session_history.jsonl and then
\* deletes the session_id file, the delete running only if the append succeeded; without
\* one, the command only deletes the session_id file and leaves the history unchanged.
C19_ArchiveThenDelete ==
    ResetAnswered =>
        /\ Len(calls) = 1
        /\ Prog(calls[1]) = "ssh"
        /\ \E steps \in {RemoteSteps(LastArg(calls[1]))} :
               IF Truthy(msg.session_id)
               THEN /\ Len(steps) = 2
                    /\ steps[1].do = "append" /\ steps[1].file = HistoryFile
                    /\ steps[2] = DeleteSessionFile
                    /\ Len(effect.appended) <= 1
                    /\ \A i \in 1..Len(effect.appended) :
                           /\ effect.appended[i].file = HistoryFile
                           /\ IsEntryLine(effect.appended[i].text)
                    /\ effect.deleted # {} => Len(effect.appended) = 1
               ELSE /\ steps = <<DeleteSessionFile>>
                    /\ effect.appended = <<>>

\* C20: reset_session with a session_id is atomic as the relay sees it: when it answers
\* success the history line has been appended and the session_id file removed, and when
\* it answers error (transport failure and timeout included) neither has happened.
C20_BothOrNeither ==
    (ResetAnswered /\ Truthy(msg.session_id) /\ Len(calls) = 1) =>
        /\ Status(resp) = "success" =>
               /\ Len(effect.appended) = 1
               /\ effect.appended[1].file = HistoryFile
               /\ SessionFile \in effect.deleted
        /\ Status(resp) = "error" => effect = NoEffect

----------------------------------------------------------------------------
(* C22: setting up the queue *)

\* the queue of the project of the request in hand
QueueDir == msg.remote_path.v \o "/.plandrop"

\* the request in hand passed the checks every handler makes before it composes a call
InputsValid ==
    /\ Truthy(msg.ssh_target) /\ Truthy(msg.remote_path)
    /\ ~TargetFails /\ ~PathFails

\* the three steps of init_queue
CreatesDirectories(c) ==
    /\ Prog(c) = "ssh"
    /\ StartsWith(LastArg(c), "mkdir -p ")
    /\ \A d \in {"/plans", "/responses", "/completed"} : Contains(LastArg(c), QueueDir \o d)
CopiesWatcher(c) ==
    /\ Prog(c) = "scp"
    /\ c.argv[Len(c.argv) - 1] = Str(WatchScript)
    /\ LastArg(c) = msg.ssh_target.v \o ":" \o QueueDir \o "/watch.sh"
MarksExecutable(c) ==
    /\ Prog(c) = "ssh"
    /\ LastArg(c) = "chmod +x \"" \o QueueDir \o "/watch.sh\""

\* what init_queue says when its step i ended with r, a failure
StepFailure(i, r) ==
    IF r.kind = "timeout" THEN "Connection timed out"
    ELSE IF r.kind = "notfound" THEN NotFoundText
    ELSE Or(Strip(r.stderr), CASE i = 1 -> "Failed to create directories"
                               [] i = 2 -> "Failed to copy watch.sh"
                               [] OTHER -> "Failed to make watch.sh executable")

StepSucceeded(r) == r.kind = "exit" /\ r.rc = 0

\* C22: init_queue runs its steps in the order create directories, copy the watcher
\* script, mark it executable; when a step fails (nonzero exit, timeout, or no local
\* watcher script to copy) no later step is issued and the answer is an error carrying
\* that first failure; success is answered only when all three steps succeeded.
C22_StepsInOrder ==
    Handling("init_queue") =>
        /\ Len(calls) <= 3
        /\ Len(calls) >= 1 => CreatesDirectories(calls[1])
        /\ Len(calls) >= 2 => CopiesWatcher(calls[2])
        /\ Len(calls) >= 3 => MarksExecutable(calls[3])
        /\ \A i \in 1..Len(outs) :
               ~StepSucceeded(outs[i]) =>
                   /\ Len(calls) = i
                   /\ pc = "send" => resp = Error(StepFailure(i, outs[i]))
        /\ Len(outs) >= 1 /\ StepSucceeded(outs[1]) /\ ~watchSh =>
               /\ Len(calls) = 1
               /\ pc = "send" => resp = Error("watch.sh not found in native-host directory")
        /\ pc = "send" /\ Status(resp) = "success" =>
               /\ Len(outs) = 3
               /\ \A i \in 1..3 : StepSucceeded(outs[i])
               /\ watchSh

\* the directories were made and the copy failed: init_queue is about to say so, and
\* the third step was never issued
C22_Witness ==
    /\ Handling("init_queue")
    /\ pc = "send"
    /\ Len(calls) = 2
    /\ StepSucceeded(outs[1])
    /\ outs[2] = Exit(1, "", "boom\n")
    /\ resp = Error("boom")

----------------------------------------------------------------------------
(* C25: the statuses of the responses *)

StatusValues == {"success", "error", "ok", "empty", "not_running", "interrupt_sent"}

\* C25: every response is a mapping whose status is one of success, error, ok, empty,
\* not_running, interrupt_sent; not_running is answered only by read_heartbeat,
\* interrupt_sent only by interrupt, and empty only by poll_responses and read_session.
C25_StatusVocabulary ==
    Answered =>
        /\ resp.t = "obj"
        /\ DictGet(resp, "status").t = "str"
        /\ Status(resp) \in StatusValues
        /\ Status(resp) = "not_running" => Handling("read_heartbeat")
        /\ Status(resp) = "interrupt_sent" => Handling("interrupt")
        /\ Status(resp) = "empty" => Handling("poll_responses") \/ Handling("read_session")

\* read_session found no session file and is about to answer empty
C25_Witness ==
    /\ Handling("read_session")
    /\ pc = "send"
    /\ outs = <<Exit(1, "", "")>>
    /\ resp = Response("empty", <<>>)

----------------------------------------------------------------------------
(* C26: nonzero exits *)

\* call i of the request in hand ran and exited with a nonzero status
NonzeroExit(i) == i \in 1..Len(outs) /\ outs[i].kind = "exit" /\ outs[i].rc # 0

\* the response carries the text in its message (or, for run_command, its error field)
Carries(r, text) ==
    \E f \in {"message", "error"} : DictGet(r, f).t = "str" /\ Contains(DictGet(r, f).v, text)

ExitExamined(i) ==
    /\ \A a \in {"check_file", "poll_responses", "read_heartbeat", "read_session"} : ~Handling(a)
    /\ ~(Handling("test_conn") /\ i = 2)

----------------------------------------------------------------------------
(* C27: check_file *)

\* the words of the first simple command of a command line
FirstCommand(cmd) ==
    Only({SubSeq(ts, 1, Only({k \in 0..Len(ts) :
                                  /\ \A i \in 1..k : ~ts[i].op
                                  /\ k < Len(ts) => ts[k + 1].op}))
          : ts \in {ShellTokens(cmd).tokens}})

\* the files stat is asked about by `stat -c FORMAT file ... 2>/dev/null`
StatOperands(cmd) ==
    Only({{ws[k].text : k \in 4..(Len(ws) - 1)} : ws \in {FirstCommand(cmd)}})

\* C27: the stat call of check_file asks about the requested path, and that path only;
\* the answer is success with exists true, size and modified exactly when the call
\* exits 0 and prints at least two fields, and success with exists false otherwise (so
\* exists true is never answered for a path that does not exist).
C27_ExistsIffStatSucceeds ==
    Handling("check_file") /\ InputsValid /\ pc = "send"
    /\ Len(outs) = 1 /\ outs[1].kind = "exit" =>
        /\ StatOperands(LastArg(calls[1])) = {msg.remote_path.v}
        /\ \E fields \in {Split(Strip(outs[1].stdout))} :
               IF outs[1].rc = 0 /\ Len(fields) >= 2
               THEN resp = Response("success",
                               <<Field("exists", Bool(TRUE)),
                                 Field("size", Num(PyInt(fields[1]))),
                                 Field("modified", Str(FormatTime(PyInt(fields[2]))))>>)
               ELSE resp = Response("success", <<Field("exists", Bool(FALSE))>>)

----------------------------------------------------------------------------
(* C29: the options of ssh and scp *)

KeyValues == {Absent, Null, Str(""), Str("/k/id")}
PortValues == {Absent, Null, Num(0), Num(22), Num(2222), Str("2222")}

\* the six options, by the text before any value
FixedOptions ==
    <<"BatchMode=yes", "StrictHostKeyChecking=accept-new", "ConnectTimeout=",
      "ControlMaster=auto", "ControlPath=", "ControlPersist=">>

\* args is: -i key when a key is given, then the port flag and the port when a port is
\* given, then the six options, each after a -o
OptionsOf(args, flag, key, port) ==
    \E k \in {IF Truthy(key) THEN 2 ELSE 0} : \E p \in {IF Truthy(port) THEN 2 ELSE 0} :
        /\ Len(args) = k + p + 12
        /\ k = 2 => args[1] = Str("-i") /\ args[2] = key
        /\ p = 2 => args[k + 1] = Str(flag) /\ args[k + 2] = Str(PyStr(port))
        /\ \A i \in 1..6 :
               /\ args[k + p + 2 * i - 1] = Str("-o")
               /\ args[k + p + 2 * i].t = "str"
               /\ StartsWith(args[k + p + 2 * i].v, FixedOptions[i])

\* C29: for every key and port, build_ssh_args and build_scp_args return the same list
\* but for the letter of the port flag (-p for ssh, -P for scp): -i key exactly when
\* a key is given, the port flag exactly when a port is given, then the six fixed
\* options in the same order; and every ssh and scp call of every handler carries
\* the list built from the key and port of its request.
C29_SameOptions ==
    /\ \A key \in KeyValues, port \in PortValues :
           \E s \in {build_ssh_args("u@h", key, port)} :
           \E c \in {build_scp_args("u@h", key, port)} :
               /\ OptionsOf(s, "-p", key, port)
               /\ OptionsOf(c, "-P", key, port)
               /\ Len(s) = Len(c)
               /\ \A i \in 1..Len(s) : s[i] # c[i] => s[i] = Str("-p") /\ c[i] = Str("-P")
    /\ \A n \in 1..Len(calls) : \E a \in {calls[n].argv} :
           /\ Len(a) >= 15
           /\ a[1] \in {Str("ssh"), Str("scp")}
           /\ OptionsOf(SubSeq(a, 2, Len(a) - 2), IF a[1] = Str("ssh") THEN "-p" ELSE "-P",
                        msg.ssh_key, msg.ssh_port)

\* send_plan copies the plan with the key and the port of its request
C29_Witness ==
    /\ Handling("send_plan")
    /\ pc = "wait"
    /\ SubSeq(inflight.argv, 1, 5)
           = <<Str("scp"), Str("-i"), Str("/k/id"), Str("-P"), Str("2222")>>

----------------------------------------------------------------------------
(* C30: quoting in the remote command lines *)

\* the words the remote shell makes of a command line (none when it cannot parse it)
WordsOf(cmd) ==
    Only({IF r.ok THEN {r.tokens[k].text : k \in {k \in 1..Len(r.tokens) : ~r.tokens[k].op}}
          ELSE {} :
          r \in {ShellTokens(cmd)}})

\* the paths ssh call n of handler a is meant to name, each built from remote_path
PathArguments(a, n) ==
    CASE a = "check_file" -> {msg.remote_path.v}
      [] a = "send_file" -> {Dirname(msg.remote_path.v)}
      [] a = "init_queue" ->
             IF n = 1 THEN {QueueDir \o d : d \in {"/plans", "/responses", "/completed"}}
             ELSE {QueueDir \o "/watch.sh"}
      [] a = "poll_responses" -> {ResponsesFile}
      [] a = "read_heartbeat" -> {QueueDir \o "/heartbeat"}
      [] a = "read_session" -> {SessionFile}
      [] a = "write_settings" -> {msg.remote_path.v \o "/.claude"}
      [] a = "reset_session" ->
             {SessionFile} \cup (IF Truthy(msg.session_id) THEN {HistoryFile} ELSE {})
      [] a = "interrupt" -> {QueueDir \o "/interrupt"}
      [] OTHER -> {}

\* C30: in every remote command line the relay composes from a remote_path accepted by
\* validate_path, each path built from it reaches the remote shell as a single word
\* (the three directories of init_queue's mkdir and the two files of reset_session's
\* append-then-delete included).
C30_PathsAreSingleWords ==
    HandlingKnown /\ InputsValid =>
        \A n \in 1..Len(calls) :
            Prog(calls[n]) = "ssh" =>
                PathArguments(msg.action.v, n) \subseteq WordsOf(LastArg(calls[n]))

----------------------------------------------------------------------------
(* C28: malformed JSON *)

\* texts that are no JSON document
NotJson == {Str("{\"id\": \"abc\""), Str("not json"), Str("{oops")}
\* plans without an id
PlansWithoutId == {Str("{\"name\": \"x\"}"), Str("{\"id\": \"\"}")}

\* the request in hand is a send_plan or write_settings whose other inputs are valid and
\* whose JSON text is malformed
MalformedJson ==
    /\ InputsValid
    /\ \/ Handling("send_plan") /\ msg.plan_data \in NotJson \cup PlansWithoutId
       \/ Handling("write_settings") /\ msg.settings_json \in NotJson

\* C28: send_plan with plan_data that does not parse as JSON or has no id, and
\* write_settings with settings_json that does not parse, are answered with status
\* error without any external process being started and without a local temporary
\* file being created.
C28_MalformedJsonStaysLocal ==
    MalformedJson =>
        /\ calls = <<>>
        /\ inflight = NoCall
        /\ Running.kind = "return"
        /\ Running.temps = 0
        /\ Status(Running.resp) = "error"
        /\ Answered => resp = Running.resp

\* send_plan is about to answer that its plan_data, cut short, is no JSON
C28_Witness ==
    /\ Handling("send_plan")
    /\ msg.plan_data = Str("{\"id\": \"abc\"")
    /\ pc = "send"
    /\ calls = <<>>
    /\ StartsWith(Message(resp), "Invalid plan JSON")

----------------------------------------------------------------------------
(* C21, C23, C24: the files of the queue from request to request *)

EndsWith(s, suffix) ==
    Len(suffix) <= Len(s) /\ SubSeq(s, Len(s) - Len(suffix) + 1, Len(s)) = suffix

IsHistory(p) == EndsWith(p, "/.plandrop/session_history.jsonl")
IsMarker(p) == EndsWith(p, "/.plandrop/interrupt")

\* no step removes a history file or changes what it already holds
HistoryKept ==
    \A p \in DOMAIN remote.files :
        IsHistory(p) =>
            /\ p \in DOMAIN remote.files'
            /\ StartsWith(remote.files'[p], remote.files[p])

\* C21: session_history.jsonl is append-only: no operation of the relay removes or
\* rewrites a line already in it, and each successful reset_session that carries a
\* session_id adds exactly one line, at the end, holding that session_id and the
\* timestamp supplied (or "").
C21_HistoryAppendOnly ==
    /\ [][HistoryKept]_vars
    /\ [](Handling("reset_session") /\ InputsValid /\ Truthy(msg.session_id)
          /\ pc = "send" /\ Status(resp) = "success" =>
              \E old \in {Content(before, HistoryFile)} :
              \E new \in {Content(remote, HistoryFile)} :
                  /\ StartsWith(new, old)
                  /\ IsEntryLine(Slice(new, Len(old) + 1, Len(new))))

\* C23: init_queue is idempotent: when its calls reach the host it succeeds, and when
\* it is called twice in succession on the same project, the directories and every
\* file of the queue other than the watcher script are the same after the second call
\* as after the first.
C23_InitQueueIdempotent ==
    Handling("init_queue") /\ pc = "send" /\ Connected(outs) =>
        /\ Status(resp) = "success"
        /\ prev.msg = msg /\ prev.worked =>
               /\ remote.dirs = before.dirs
               /\ \A p \in (DOMAIN remote.files \cup DOMAIN before.files)
                               \ {QueueDir \o "/watch.sh"} :
                      /\ FileExists(remote, p) <=> FileExists(before, p)
                      /\ Content(remote, p) = Content(before, p)

\* no step removes an interrupt marker
MarkerKept == \A p \in DOMAIN remote.files : IsMarker(p) => p \in DOMAIN remote.files'

\* C24: interrupt with valid inputs issues exactly one transport call, which touches
\* <remote_path>/.plandrop/interrupt, and answers interrupt_sent if and only if that
\* call exits 0 (the marker is then there); no operation of the relay removes a
\* marker, so repeating interrupt leaves it present.
C24_InterruptMarker ==
    /\ [][MarkerKept]_vars
    /\ [](Handling("interrupt") /\ InputsValid =>
              /\ Len(calls) <= 1
              /\ Len(calls) = 1 =>
                     /\ Prog(calls[1]) = "ssh"
                     /\ ShellTokens(LastArg(calls[1])).tokens
                            = <<Word("touch"), Word(QueueDir \o "/interrupt")>>
              /\ pc = "send" =>
                     /\ Len(outs) = 1
                     /\ Status(resp) = "interrupt_sent"
                            <=> (outs[1].kind = "exit" /\ outs[1].rc = 0)
                     /\ Status(resp) = "interrupt_sent"
                            => FileExists(remote, QueueDir \o "/interrupt"))

----------------------------------------------------------------------------
(* C31: the overwrite field of send_file *)

\* the directory send_file makes before the copy ("" when the path has none)
ParentDir == Dirname(msg.remote_path.v)

CreatesParent(c) ==
    /\ Prog(c) = "ssh"
    /\ LastArg(c) = "mkdir -p \"" \o ParentDir \o "\""

CopiesContent(c) ==
    /\ Prog(c) = "scp"
    /\ c.argv[Len(c.argv) - 1].v = TempPath("plandrop_", ".md")
    /\ LastArg(c) = msg.ssh_target.v \o ":" \o msg.remote_path.v

\* the calls of send_file: the mkdir when the path has a parent, then the copy, which
\* is reached only after a mkdir that exited 0
SendFileCalls ==
    \E n \in {IF ParentDir # "" THEN 1 ELSE 0} :
        /\ Len(calls) <= n + 1
        /\ n = 1 /\ Len(calls) >= 1 => CreatesParent(calls[1])
        /\ Len(calls) = n + 1 =>
               /\ CopiesContent(calls[n + 1])
               /\ n = 1 => outs[1].kind = "exit" /\ outs[1].rc = 0

\* C31: the overwrite field never gates send_file: at every point of a send_file
\* request, with the results of the calls made so far, the handler does the same
\* thing (the same next call, or the same response) whatever the value or presence
\* of overwrite; its calls are the mkdir -p of the parent directory when the path has
\* one, then the copy, a failed mkdir ending the request before the copy; and after a
\* successful send_file the remote file holds the content sent, whether or not it
\* existed before.
C31_OverwriteIgnored ==
    Handling("send_file") =>
        /\ \A w \in OverwriteValues :
               action_send_file([msg EXCEPT !.overwrite = w], outs) = Running
        /\ SendFileCalls
        /\ pc = "send" /\ Status(resp) = "success" =>
               /\ FileExists(remote, msg.remote_path.v)
               /\ Content(remote, msg.remote_path.v) = msg.content.v

\* a send_file with overwrite false has replaced a file that was there
C31_Witness ==
    /\ Handling("send_file") /\ msg.overwrite = Bool(FALSE)
    /\ pc = "send" /\ Status(resp) = "success" /\ Len(calls) = 2
    /\ FileExists(before, msg.remote_path.v)
    /\ Content(before, msg.remote_path.v) # msg.content.v
    /\ Content(remote, msg.remote_path.v) = msg.content.v

----------------------------------------------------------------------------
(* C32: what send_plan copies, and where *)

\* the id field of the plan of the request
PlanId == DictGet(json_loads(msg.plan_data).val, "id").v

\* <remote_path>/.plandrop/plans/<id>.json
PlanFile == QueueDir \o "/plans/" \o PlanId \o ".json"

\* C32: a successful send_plan has made exactly one transport call, an scp of one
\* local file to <remote_path>/.plandrop/plans/<id>.json, <id> being the id field of
\* the plan, and the remote file then holds the plan_data string as it was received;
\* send_plan starts no other command and creates no directory, every other remote
\* file is as it was, and a plan sent again under the same id replaces the same file.
C32_SendPlanCopiesOnce ==
    Handling("send_plan") =>
        /\ Len(calls) <= 1
        /\ \A i \in 1..Len(calls) : Prog(calls[i]) = "scp"
        /\ remote.dirs = before.dirs
        /\ pc = "send" /\ Status(resp) = "success" =>
               /\ Len(calls) = 1
               /\ LastArg(calls[1]) = msg.ssh_target.v \o ":" \o PlanFile
               /\ calls[1].argv[Len(calls[1].argv) - 1].v = TempPath("plandrop_plan_", ".json")
               /\ DictGet(resp, "id") = Str(PlanId)
               /\ Content(remote, PlanFile) = msg.plan_data.v
               /\ DOMAIN remote.files = DOMAIN before.files \cup {PlanFile}
               /\ \A p \in DOMAIN before.files \ {PlanFile} :
                      remote.files[p] = before.files[p]
               /\ Is(prev.msg.action, "send_plan") /\ Status(prev.resp) = "success"
                  /\ DictGet(prev.resp, "id") = Str(PlanId)
                      => DOMAIN remote.files = DOMAIN before.files

\* a plan whose text is not what json.dumps would write was sent again under the id of
\* the plan sent before it, and is on the remote host as received
C32_Witness ==
    /\ Handling("send_plan") /\ pc = "send" /\ Status(resp) = "success"
    /\ msg.plan_data = Str("{ \"id\":\"abc123\",\"v\":2}")
    /\ Is(prev.msg.action, "send_plan") /\ Status(prev.resp) = "success"
    /\ prev.msg.plan_data # msg.plan_data
    /\ DictGet(prev.resp, "id") = Str(PlanId)
    /\ Content(remote, PlanFile) = msg.plan_data.v

----------------------------------------------------------------------------
(* C34: the temporary files of the relay *)

\* the handler of the request in hand has left its try block
HandlerLeft == pc \notin {"handle", "wait"}

\* C34: no local temporary file outlives its request: once the handler of send_file,
\* send_plan or write_settings has returned or raised, however its calls ended, the
\* file it made with mkstemp has been removed, so whenever the relay waits for the
\* next frame (and when it answers or exits) no temporary file of the relay is left;
\* while a call is awaited the only such file is the one of the request in hand.
C34_NoTempFileLeft ==
    /\ HandlerLeft => tmpfiles = {}
    /\ pc = "handle" /\ Running.kind # "call" =>
           (tmpfiles \cup Running.made) \ Running.unlinked = {}
    /\ tmpfiles \subseteq Running.made

\* write_settings made its temporary file, the copy timed out, and the file is gone
\* when the error is about to be sent
C34_Witness ==
    /\ Handling("write_settings") /\ pc = "send"
    /\ Len(outs) = 2 /\ outs[2].kind = "timeout"
    /\ Running.made = {TempPath("plandrop_settings_", ".json")}
    /\ tmpfiles = {}

----------------------------------------------------------------------------
(* C33: the session_id file from request to request *)

IsSession(p) == EndsWith(p, "/.plandrop/session_id")

\* a step creates no session_id file and changes none, and removes one only while a
\* reset_session is handled
SessionKept ==
    /\ \A p \in DOMAIN remote.files' :
           IsSession(p) => p \in DOMAIN remote.files /\ remote.files'[p] = remote.files[p]
    /\ \A p \in DOMAIN remote.files \ DOMAIN remote.files' :
           IsSession(p) => Handling("reset_session")

\* the request before this one was a reset_session of the same project, answered success
AfterReset ==
    /\ Is(prev.msg.action, "reset_session") /\ Status(prev.resp) = "success"
    /\ prev.msg.remote_path = msg.remote_path

\* C33: over any sequence of queue operations the relay never creates or changes a
\* session_id file and removes one only in reset_session; a reset_session answered
\* success has removed the session_id of its project and left every line that any
\* session_history.jsonl held; and a read_session that follows it and reaches the host
\* (no watcher having written a new session_id) is answered empty and changes nothing
\* there.
C33_SessionLifecycle ==
    /\ [][SessionKept]_vars
    /\ [](Handling("reset_session") /\ pc = "send" /\ Status(resp) = "success" =>
              /\ ~FileExists(remote, SessionFile)
              /\ \A p \in DOMAIN before.files :
                     IsHistory(p) => /\ p \in DOMAIN remote.files
                                     /\ StartsWith(remote.files[p], before.files[p]))
    /\ [](Handling("read_session") /\ pc = "send" /\ AfterReset /\ Connected(outs) =>
              /\ ~FileExists(before, SessionFile)
              /\ Status(resp) = "empty"
              /\ remote = before)

====
